---- MODULE Spec2Model ----
(***************************************************************************)
(* Order reconciliation of the Svea payment adapter: the webhook handler,  *)
(* the confirm-order handler with the adapter's confirmOrder, and          *)
(* initiatePayment, run against the host store (transactions, orders,      *)
(* carts) and the provider's order records.  Every await of a handler is   *)
(* one atomic step, so steps of different invocations interleave.  A store *)
(* or provider call may throw at any step.                                 *)
(***************************************************************************)
EXTENDS Integers, Sequences, FiniteSets, TLC

\* ---- bounds ------------------------------------------------------------
MaxTx == 2          \* provider orders / transactions initiatePayment may create
NumProcs == 2       \* webhook and confirm-order invocations in flight at a time
NumCarts == 1       \* carts in the store
MaxHist == 1        \* answered invocations kept for comparison
MaxTxRetry == 1     \* transactions when answered invocations are kept
MaxTxConc == 1      \* transactions when invocations overlap
CartItems == 2      \* line items in a fresh cart
MaxRetries == 1     \* uses of the confirmation page's retry

\* ---- identifiers -------------------------------------------------------
None == 0
PoBase == 100       \* provider order ids are PoBase + 1, PoBase + 2, ...
ConBase == 200      \* client order numbers are ConBase + 1, ...

Procs == 1..NumProcs
CartIds == 1..NumCarts
TxIdIn == 0..MaxTx
PoIdIn == {None} \cup {PoBase + i : i \in 1..MaxTx}
ConIn == {None} \cup {ConBase + i : i \in 1..MaxTx}
StatusIn == {"", "Final", "Cancelled", "Created"}
BodyKinds == {"object", "unparseable", "null"}
Methods == {"GET", "POST", "PUT", "OPTIONS"}
\* customValidation: not configured, or what it does when called
Preds == {"none", "true", "false", "throws"}

VARIABLES
    txs,        \* transactions collection: sequence, id = index
    orders,     \* orders collection: sequence, id = index
    carts,      \* carts collection: CartIds -> record
    provider,   \* provider's order records: sequence, id = PoBase + index
    procs,      \* the webhook / confirm-order invocations in flight
    ip,         \* the initiatePayment call that has just returned, if any
    hist,       \* the latest answered invocations, kept for comparison
    sort,       \* the store's default sort order, once a query has shown it
    client,     \* the confirmation page's SveaConfirmOrder component
    config      \* the credentials the adapter and the handlers were created with

vars == <<txs, orders, carts, provider, procs, ip, hist, sort, client, config>>

\* what a handler keeps of the transaction document it read
NoTx == [id |-> None, status |-> "none", order |-> None, cart |-> None,
         items |-> 0, con |-> None]

IdleProc == [kind |-> "idle", pc |-> "idle",
             body |-> "object", inOrderId |-> None, inStatus |-> "",
             inTxId |-> None, inCon |-> None,
             txn |-> NoTx, sveaOrderId |-> None, poCon |-> None,
             items |-> 0, existing |-> None, merged |-> <<>>, ord |-> None,
             http |-> 0, result |-> None, err |-> "",
             created |-> None, fetched |-> FALSE, faulted |-> FALSE,
             method |-> "", event |-> FALSE, pred |-> "none",
             valid |-> "none", extra |-> "", invoked |-> FALSE]

IdleIp == [pc |-> "idle", err |-> "", called |-> FALSE, tx |-> None]

\* merchantId and secretKey as given at creation: non-empty or not
Configs == [merchantId : BOOLEAN, secretKey : BOOLEAN]
Configured == [merchantId |-> TRUE, secretKey |-> TRUE]
\* createSveaAuthHeaders: if (!merchantId || !secretKey) throw
MissingCredentials == ~config.merchantId \/ ~config.secretKey

\* ---- the store (payload.find / findByID / create / update) --------------
TxDoc(i) == [id |-> i, status |-> txs[i].status, order |-> txs[i].order,
             cart |-> txs[i].cart, items |-> txs[i].items, con |-> txs[i].con]

\* payload.find({ where: { 'svea.orderId': { equals } } })
TxByOrderId_All(oid) == 1..Len(txs)
TxByOrderId(oid) == {i \in 1..Len(txs) : txs[i].orderId = oid}
\* payload.find({ where: { 'svea.clientOrderNumber': { equals } } })
TxByCon(con) == {i \in 1..Len(txs) : txs[i].con = con}

InSeq(x, s) == \E k \in 1..Len(s) : s[k] = x
\* payload.find({ collection: orders, where: { transactions: { contains } } })
OrdersContaining_None(t) == {}
OrdersContaining(t) == {o \in 1..Len(orders) : InSeq(t, orders[o].transactions)}

\* docs[0] of a query with limit: 1.  The store returns the matches in its
\* default sort order, by creation, oldest or newest first; which of the two
\* shows the first time a query has more than one match.
SortOrders(S) ==
    IF sort # "any" THEN {sort}
    ELSE IF Cardinality(S) > 1 THEN {"asc", "desc"} ELSE {"any"}
First(S, srt) ==
    IF srt = "desc" THEN CHOOSE x \in S : \A y \in S : y <= x
    ELSE CHOOSE x \in S : \A y \in S : x <= y

\* normalizeCartItems: one order item per cart item
normalizeCartItems(items) == IF items = 0 THEN 0 ELSE items

\* Array.from(new Set([...existingTransactionIds, transaction.id]))
mergedTransactionIds_Dup(existing, t) == Append(existing, t)
mergedTransactionIds(existing, t) ==
    IF InSeq(t, existing) THEN existing ELSE Append(existing, t)

\* transaction.status === 'succeeded' && transaction.order
AlreadyProcessed_Never(tx) == FALSE
AlreadyProcessed(tx) == tx.status = "succeeded" /\ tx.order # None

\* { purchasedAt, status: 'purchased', items: [] }
PurchasedCart_KeepsItems == [status |-> "purchased", items |-> CartItems]
PurchasedCart == [status |-> "purchased", items |-> 0]

\* an answer is handed to the caller before anything else happens
NoAnswerPending == ip.pc # "done" /\ \A q \in Procs : procs[q].pc # "done"
AllIdle == \A q \in Procs : procs[q].pc = "idle"

\* ---- the provider ------------------------------------------------------
PoKnown(oid) == oid - PoBase \in 1..Len(provider)
PoStatus(oid) == provider[oid - PoBase].status

\* the customer completes the payment on the provider's hosted page
ProviderFinalize ==
    \E i \in 1..Len(provider) :
        /\ NoAnswerPending
        /\ provider[i].status = "Created"
        /\ provider' = [provider EXCEPT ![i].status = "Final"]
        /\ UNCHANGED <<txs, orders, carts, procs, ip, hist, client, config, sort>>

\* ---- initiatePayment ---------------------------------------------------
\* the cart items of a call, by what is wrong with them: the product not
\* populated, no positive price, a negative quantity, quantity 0
RowKinds == {"ok", "none", "badprice", "badqty", "zeroqty"}
CartItemOf(kind) ==
    [product |-> kind # "none",
     priceInNOK |-> IF kind = "badprice" THEN 0 ELSE 1,
     quantity |-> IF kind = "badqty" THEN 0 - 1 ELSE IF kind = "zeroqty" THEN 0 ELSE 1]

\* mapCartItemToSveaOrderRow: null, a throw, or the row in minor units
mapCartItemToSveaOrderRow(item) ==
    IF ~item.product THEN [tag |-> "null", quantity |-> 0, unitPrice |-> 0]
    ELSE IF item.priceInNOK <= 0 THEN [tag |-> "throw", quantity |-> 0, unitPrice |-> 0]
    ELSE [tag |-> "row",
          quantity |-> (IF item.quantity = 0 THEN 1 ELSE item.quantity) * 100,
          unitPrice |-> item.priceInNOK * 100]

\* the checks of the input that precede the provider call
IpValidate_NoEmailCheck(currency, cart, email, billing, rows) ==
    LET row == mapCartItemToSveaOrderRow(CartItemOf(rows)) IN
    IF ~currency THEN "Currency is required."
    ELSE IF cart = None \/ (cart # None /\ carts[cart].items = 0) THEN "Cart is empty."
    ELSE IF ~billing THEN "Billing address is required."
    ELSE IF row.tag = "throw" THEN "Invalid price for product"
    ELSE IF row.tag = "null" THEN "No valid order items found."
    ELSE IF row.quantity <= 0 \/ row.unitPrice <= 0 THEN "Invalid order row"
    ELSE ""
IpValidate(currency, cart, email, billing, rows) ==
    LET row == mapCartItemToSveaOrderRow(CartItemOf(rows)) IN
    IF ~currency THEN "Currency is required."
    ELSE IF cart = None \/ (cart # None /\ carts[cart].items = 0) THEN "Cart is empty."
    ELSE IF ~email THEN "Customer email is required."
    ELSE IF ~billing THEN "Billing address is required."
    ELSE IF row.tag = "throw" THEN "Invalid price for product"
    ELSE IF row.tag = "null" THEN "No valid order items found."
    ELSE IF row.quantity <= 0 \/ row.unitPrice <= 0 THEN "Invalid order row"
    ELSE ""

\* what the POST to the provider does: the fetch throws, answers non-2xx, or
\* answers 2xx (and the store's create of the transaction then fails or not)
Outcomes == {"ok", "fault", "http", "storefault"}
\* ResultCode ?? resultCode of a 2xx response: absent, a string, or a number
NoResultCode == [numeric |-> FALSE, value |-> 0]
ResultCodes == {NoResultCode, [numeric |-> FALSE, value |-> 400]}
                  \cup {[numeric |-> TRUE, value |-> v] : v \in {0, 200, 201, 400}}

\* typeof resultCode === 'number' && resultCode !== 0 && !== 200 && !== 201
ResultCodeFails_Never(rc) == FALSE
ResultCodeFails(rc) == rc.numeric /\ rc.value \notin {0, 200, 201}

\* one call of initiatePayment with the given input and provider behaviour
IpCall(currency, cart, email, billing, rows, outcome, rc) ==
    LET e == IpValidate(currency, cart, email, billing, rows)
        po == PoBase + Len(provider) + 1
        con == ConBase + Len(provider) + 1
    IN
    IF e # ""
    THEN ip' = [IdleIp EXCEPT !.pc = "done", !.err = e]
         /\ UNCHANGED <<provider, txs>>
    ELSE IF MissingCredentials
    THEN ip' = [IdleIp EXCEPT !.pc = "done",
                              !.err = "Merchant ID and secret key are required"]
         /\ UNCHANGED <<provider, txs>>
    ELSE IF outcome = "fault"
    THEN ip' = [IdleIp EXCEPT !.pc = "done", !.err = "fetch failed", !.called = TRUE]
         /\ UNCHANGED <<provider, txs>>
    ELSE IF outcome = "http" \/ ResultCodeFails(rc)
    THEN ip' = [IdleIp EXCEPT !.pc = "done", !.err = "Failed to create Svea order",
                              !.called = TRUE]
         /\ UNCHANGED <<provider, txs>>
    ELSE /\ provider' = Append(provider, [status |-> "Created", con |-> con])
         /\ IF outcome = "storefault"
            THEN /\ ip' = [IdleIp EXCEPT !.pc = "done", !.err = "create failed",
                                         !.called = TRUE]
                 /\ UNCHANGED txs
            ELSE /\ txs' = Append(txs, [status |-> "pending", order |-> None,
                         cart |-> cart, items |-> normalizeCartItems(carts[cart].items),
                         orderId |-> po, con |-> con])
                 /\ ip' = [IdleIp EXCEPT !.pc = "done", !.called = TRUE,
                                         !.tx = Len(txs) + 1]

\* initiatePayment: input validation, POST {checkoutApiUrl}/api/orders, then
\* payload.create of the pending transaction.  The provider order and the
\* transaction are new records no running handler holds, so the call is one step.
InitiatePayment ==
    /\ NoAnswerPending
    /\ Len(provider) < MaxTx
    /\ \E currency \in BOOLEAN, cart \in {None} \cup CartIds, email \in BOOLEAN,
          billing \in BOOLEAN, rows \in RowKinds, outcome \in Outcomes,
          rc \in ResultCodes :
         \* the provider is not reached on invalid input, and a response
         \* that is not 2xx has no body to take a result code from
         /\ IpValidate(currency, cart, email, billing, rows) # ""
               => (outcome = "ok" /\ rc = NoResultCode)
         /\ outcome \in {"fault", "http"} => rc = NoResultCode
         /\ IpCall(currency, cart, email, billing, rows, outcome, rc)
    /\ UNCHANGED <<orders, carts, procs, hist, client, config, sort>>

\* initiatePayment on valid input when the provider's 2xx response carries no
\* OrderId: svea.orderId of the new transaction is sveaOrder.OrderId, absent
InitiatePaymentNoOrderId ==
    /\ NoAnswerPending
    /\ Len(provider) < MaxTx
    /\ ~MissingCredentials
    /\ \E cart \in CartIds :
         /\ IpValidate(TRUE, cart, TRUE, TRUE, "ok") = ""
         /\ provider' = Append(provider, [status |-> "Created",
                                           con |-> ConBase + Len(provider) + 1])
         /\ txs' = Append(txs, [status |-> "pending", order |-> None,
                      cart |-> cart, items |-> normalizeCartItems(carts[cart].items),
                      orderId |-> None, con |-> ConBase + Len(provider) + 1])
         /\ ip' = [IdleIp EXCEPT !.pc = "done", !.called = TRUE, !.tx = Len(txs) + 1]
    /\ UNCHANGED <<orders, carts, procs, hist, client, config, sort>>

\* the caller has the result of initiatePayment
IpReturn ==
    /\ ip.pc = "done"
    /\ ip' = IdleIp
    /\ UNCHANGED <<txs, orders, carts, provider, procs, hist, client, config, sort>>

\* ---- invocations -------------------------------------------------------
\* idle slots are interchangeable: a new invocation takes the lowest one
CanStart(p) ==
    /\ NoAnswerPending
    /\ procs[p].pc = "idle" /\ \A q \in Procs : q < p => procs[q].pc # "idle"

\* invocation p of the handler `kind` is at the await `pc`
At(p, kind, pc) == NoAnswerPending /\ procs[p].kind = kind /\ procs[p].pc = pc

\* slot p becomes r
Set(p, r) == procs' = [procs EXCEPT ![p] = r]
StartIn(p, r) == Set(p, r)

\* the handler has answered: its locals are gone
Answer(r, http) ==
    [r EXCEPT !.pc = "done", !.http = http,
              !.txn = [NoTx EXCEPT !.id = r.txn.id, !.status = r.txn.status,
                                   !.order = r.txn.order],
              !.poCon = None, !.items = 0, !.existing = None, !.merged = <<>>,
              !.ord = None]

\* ---- webhook handler (handleWebhook) -----------------------------------
\* return new NextResponse(null, { status: 200 }) / NextResponse.json({ success: true })
WhRespond(r) == Answer(r, 200)
\* catch (error) { ... return new NextResponse(null, { status: 200 }) }
WhCatch_500(r) == Answer([r EXCEPT !.faulted = TRUE], 500)
WhCatch(r) == Answer([r EXCEPT !.faulted = TRUE], 200)

\* body.OrderId ?? body.orderId ?? body.Data?.OrderId ?? queryOrderId ?? orderIdFromPath
WhOrderId(body, bOid, uOid) == IF body = "object" /\ bOid # None THEN bOid ELSE uOid
\* body.Status ?? body.status ?? body.Data?.Status ?? queryStatus
WhStatus(body, bSt, qSt) == IF body = "object" /\ bSt # "" THEN bSt ELSE qSt

\* if (!orderId)
WhMissingOrderId_Never(orderId) == FALSE
WhMissingOrderId(orderId) == orderId = None

\* getPayload, URL and body parsing, the missing-OrderId check
WhStart(p) ==
    /\ CanStart(p)
    /\ \E body \in BodyKinds, bOid \in PoIdIn, uOid \in PoIdIn,
          bSt \in StatusIn, qSt \in StatusIn, fault \in BOOLEAN :
         /\ body # "object" => (bOid = None /\ bSt = "")
         /\ LET orderId == WhOrderId(body, bOid, uOid)
                r == [IdleProc EXCEPT !.kind = "webhook", !.body = body,
                         !.inOrderId = orderId, !.inStatus = WhStatus(body, bSt, qSt)]
            IN StartIn(p, IF fault \/ body = "null" THEN WhCatch(r)
                          ELSE IF WhMissingOrderId(orderId) THEN WhRespond(r)
                          ELSE [r EXCEPT !.pc = "findTx"])
    /\ UNCHANGED <<txs, orders, carts, provider, ip, hist, client, config, sort>>

\* the status dispatch on the transaction found
WhDispatch_ElseCancels(r, tx) ==
    LET r1 == [r EXCEPT !.txn = tx] IN
    IF r.inStatus = "Final"
    THEN IF AlreadyProcessed(tx) THEN WhRespond(r1) ELSE [r1 EXCEPT !.pc = "updateTx"]
    ELSE [r1 EXCEPT !.pc = "cancel"]
WhDispatch(r, tx) ==
    LET r1 == [r EXCEPT !.txn = tx] IN
    IF r.inStatus = "Final"
    THEN IF AlreadyProcessed(tx) THEN WhRespond(r1) ELSE [r1 EXCEPT !.pc = "updateTx"]
    ELSE IF r.inStatus = "Cancelled" THEN [r1 EXCEPT !.pc = "cancel"]
    ELSE WhRespond(r1)

\* payload.find transactions by svea.orderId
WhFindTx(p) ==
    /\ At(p, "webhook", "findTx")
    /\ LET S == TxByOrderId(procs[p].inOrderId) IN
       \/ Set(p, WhCatch(procs[p])) /\ UNCHANGED sort
       \/ S = {} /\ Set(p, WhRespond(procs[p])) /\ UNCHANGED sort
       \/ /\ S # {}
          /\ \E srt \in SortOrders(S) :
               sort' = srt /\ Set(p, WhDispatch(procs[p], TxDoc(First(S, srt))))
    /\ UNCHANGED <<txs, orders, carts, provider, ip, hist, client, config>>

\* payload.update transaction { status: 'succeeded', svea: {...existing, orderId} }
WhUpdateTx_DropsExisting(p) ==
    LET r == procs[p] IN
    /\ At(p, "webhook", "updateTx")
    /\ \/ Set(p, WhCatch(r)) /\ UNCHANGED txs
       \/ /\ txs' = [txs EXCEPT ![r.txn.id].status = "succeeded",
                                ![r.txn.id].orderId = r.inOrderId,
                                ![r.txn.id].con = None]
          /\ Set(p, IF r.txn.order # None
                    THEN WhRespond([r EXCEPT !.existing = r.txn.order])
                    ELSE [r EXCEPT !.pc = "lookup"])
    /\ UNCHANGED <<orders, carts, provider, ip, hist, client, config, sort>>
WhUpdateTx(p) ==
    LET r == procs[p] IN
    /\ At(p, "webhook", "updateTx")
    /\ \/ Set(p, WhCatch(r)) /\ UNCHANGED txs
       \/ /\ txs' = [txs EXCEPT ![r.txn.id].status = "succeeded",
                                ![r.txn.id].orderId = r.inOrderId,
                                ![r.txn.id].con = r.txn.con]
          /\ Set(p, IF r.txn.order # None
                    THEN WhRespond([r EXCEPT !.existing = r.txn.order])
                    ELSE [r EXCEPT !.pc = "lookup"])
    /\ UNCHANGED <<orders, carts, provider, ip, hist, client, config, sort>>

\* payload.find orders where transactions contains transaction.id
WhLookup(p) ==
    LET r == procs[p] IN
    /\ At(p, "webhook", "lookup")
    /\ LET S == OrdersContaining(r.txn.id) IN
       \/ Set(p, WhCatch(r)) /\ UNCHANGED sort
       \/ /\ S = {}
          /\ Set(p, IF r.txn.cart = None THEN WhRespond(r) ELSE [r EXCEPT !.pc = "getCart"])
          /\ UNCHANGED sort
       \/ /\ S # {}
          /\ \E srt \in SortOrders(S) :
               sort' = srt /\ Set(p, WhRespond([r EXCEPT !.existing = First(S, srt)]))
    /\ UNCHANGED <<txs, orders, carts, provider, ip, hist, client, config>>

\* payload.findByID cart, and the order items mapped from cart.items
WhGetCart(p) ==
    LET r == procs[p] IN
    /\ At(p, "webhook", "getCart")
    /\ \/ Set(p, WhCatch(r))
       \/ Set(p, [r EXCEPT !.pc = "createOrder",
                           !.items = normalizeCartItems(carts[r.txn.cart].items)])
    /\ UNCHANGED <<txs, orders, carts, provider, ip, hist, client, config, sort>>

\* payload.create order { items, status: 'processing', transactions: [transaction.id] }
WhCreateOrder(p) ==
    LET r == procs[p] IN
    /\ At(p, "webhook", "createOrder")
    /\ \/ Set(p, WhCatch(r)) /\ UNCHANGED orders
       \/ /\ orders' = Append(orders, [transactions |-> <<r.txn.id>>, items |-> r.items])
          /\ Set(p, [r EXCEPT !.ord = Len(orders) + 1, !.created = Len(orders) + 1,
                              !.pc = "linkTx"])
    /\ UNCHANGED <<txs, carts, provider, ip, hist, client, config, sort>>

\* payload.update transaction { order: order.id }
WhLinkTx(p) ==
    LET r == procs[p] IN
    /\ At(p, "webhook", "linkTx")
    /\ \/ Set(p, WhCatch(r)) /\ UNCHANGED txs
       \/ /\ txs' = [txs EXCEPT ![r.txn.id].order = r.ord]
          /\ Set(p, [r EXCEPT !.pc = "updateCart"])
    /\ UNCHANGED <<orders, carts, provider, ip, hist, client, config, sort>>

\* try { payload.update cart { status: 'purchased', items: [] } } catch { logger.warn }
WhUpdateCart(p) ==
    LET r == procs[p] IN
    /\ At(p, "webhook", "updateCart")
    /\ \/ Set(p, WhRespond([r EXCEPT !.faulted = TRUE])) /\ UNCHANGED carts
       \/ /\ carts' = [carts EXCEPT ![r.txn.cart] = PurchasedCart]
          /\ Set(p, WhRespond(r))
    /\ UNCHANGED <<txs, orders, provider, ip, hist, client, config, sort>>

\* status === 'Cancelled': payload.update transaction { status: 'failed' }
WhCancel_NoWrite(p) ==
    /\ At(p, "webhook", "cancel")
    /\ Set(p, WhRespond(procs[p]))
    /\ UNCHANGED <<txs, orders, carts, provider, ip, hist, client, config, sort>>
WhCancel(p) ==
    LET r == procs[p] IN
    /\ At(p, "webhook", "cancel")
    /\ \/ Set(p, WhCatch(r)) /\ UNCHANGED txs
       \/ /\ txs' = [txs EXCEPT ![r.txn.id].status = "failed"]
          /\ Set(p, WhRespond(r))
    /\ UNCHANGED <<orders, carts, provider, ip, hist, client, config, sort>>

\* ---- confirm-order handler (handleConfirmOrder) and confirmOrder --------
\* throw new Error(msg) -> NextResponse.json({ error }, { status: 500 })
CoThrow_Ok(r, msg) == Answer([r EXCEPT !.err = msg], 200)
CoThrow(r, msg) == Answer([r EXCEPT !.err = msg], 500)
\* a store or provider call that throws
CoFault(r) == CoThrow([r EXCEPT !.faulted = TRUE], "call failed")
\* return { message, orderID, transactionID } -> NextResponse.json(result)
CoReturn(r, orderID) == Answer([r EXCEPT !.result = orderID], 200)

\* the lookup that follows a transactionId miss
CoAfterIdMiss_ConFirst(r) ==
    IF r.inCon # None THEN [r EXCEPT !.pc = "findByCon"]
    ELSE IF r.inOrderId # None THEN [r EXCEPT !.pc = "findByOrder"]
    ELSE CoThrow(r, "Transaction not found.")
CoAfterIdMiss(r) ==
    IF r.inOrderId # None THEN [r EXCEPT !.pc = "findByOrder"]
    ELSE IF r.inCon # None THEN [r EXCEPT !.pc = "findByCon"]
    ELSE CoThrow(r, "Transaction not found.")

\* the lookup that follows a svea.orderId miss
CoAfterOrderMiss(r) ==
    IF r.inCon # None THEN [r EXCEPT !.pc = "findByCon"]
    ELSE CoThrow(r, "Transaction not found.")

\* transaction found: order id backfill, then the already-processed check
CoResolved_NoBackfill(r, t) ==
    LET oid == r.inOrderId
        r1 == [r EXCEPT !.txn = TxDoc(t), !.sveaOrderId = oid]
    IN IF oid = None THEN CoThrow(r1, "Svea order ID is required.")
       ELSE IF AlreadyProcessed(TxDoc(t)) THEN CoReturn(r1, txs[t].order)
       ELSE [r1 EXCEPT !.pc = "fetch"]
CoResolved(r, t) ==
    LET oid == IF r.inOrderId # None THEN r.inOrderId ELSE txs[t].orderId
        r1 == [r EXCEPT !.txn = TxDoc(t), !.sveaOrderId = oid]
    IN IF oid = None THEN CoThrow(r1, "Svea order ID is required.")
       ELSE IF AlreadyProcessed(TxDoc(t)) THEN CoReturn(r1, txs[t].order)
       ELSE [r1 EXCEPT !.pc = "fetch"]

\* payload.auth({ headers }): a user, no user, or a throw
AuthIn == {"user", "guest", "throws"}

\* handleConfirmOrder up to the first lookup: getPayload, payload.auth in its
\* own try/catch, req.json(), then confirmOrder's choice of the lookup to run
CoEnter_AuthFails(oid, tid, con, bodyOk, fault, auth) ==
    LET r == [IdleProc EXCEPT !.kind = "confirm", !.inOrderId = oid,
                 !.inTxId = tid, !.inCon = con,
                 !.body = IF bodyOk THEN "object" ELSE "unparseable"]
    IN IF fault \/ auth = "throws" THEN CoFault(r)
       ELSE IF ~bodyOk
       THEN Answer([r EXCEPT !.err = "Invalid request body"], 400)
       ELSE IF tid # None THEN [r EXCEPT !.pc = "findById"]
       ELSE CoAfterIdMiss(r)
CoEnter(oid, tid, con, bodyOk, fault, auth) ==
    LET r == [IdleProc EXCEPT !.kind = "confirm", !.inOrderId = oid,
                 !.inTxId = tid, !.inCon = con,
                 !.body = IF bodyOk THEN "object" ELSE "unparseable"]
    IN IF fault THEN CoFault(r)
       ELSE IF ~bodyOk
       THEN Answer([r EXCEPT !.err = "Invalid request body"], 400)
       ELSE IF tid # None THEN [r EXCEPT !.pc = "findById"]
       ELSE CoAfterIdMiss(r)

\* a confirm-order request arrives
CoStart(p) ==
    /\ CanStart(p)
    /\ \E oid \in PoIdIn, tid \in TxIdIn, con \in ConIn, bodyOk \in BOOLEAN,
          fault \in BOOLEAN, auth \in AuthIn :
         /\ ~bodyOk => (oid = None /\ tid = None /\ con = None)
         /\ fault => auth = "guest"
         /\ StartIn(p, CoEnter(oid, tid, con, bodyOk, fault, auth))
    /\ UNCHANGED <<txs, orders, carts, provider, ip, hist, client, config, sort>>

\* try { payload.findByID transaction } catch { logger.warn }
CoFindById(p) ==
    LET r == procs[p] IN
    /\ At(p, "confirm", "findById")
    /\ \/ Set(p, CoAfterIdMiss([r EXCEPT !.faulted = TRUE]))
       \/ r.inTxId \notin 1..Len(txs) /\ Set(p, CoAfterIdMiss(r))
       \/ r.inTxId \in 1..Len(txs) /\ Set(p, CoResolved(r, r.inTxId))
    /\ UNCHANGED <<txs, orders, carts, provider, ip, hist, client, config, sort>>

\* payload.find transactions by svea.orderId
CoFindByOrder(p) ==
    LET r == procs[p] IN
    /\ At(p, "confirm", "findByOrder")
    /\ LET S == TxByOrderId(r.inOrderId) IN
       \/ Set(p, CoFault(r)) /\ UNCHANGED sort
       \/ S = {} /\ Set(p, CoAfterOrderMiss(r)) /\ UNCHANGED sort
       \/ /\ S # {}
          /\ \E srt \in SortOrders(S) :
               sort' = srt /\ Set(p, CoResolved(r, First(S, srt)))
    /\ UNCHANGED <<txs, orders, carts, provider, ip, hist, client, config>>

\* payload.find transactions by svea.clientOrderNumber
CoFindByCon(p) ==
    LET r == procs[p] IN
    /\ At(p, "confirm", "findByCon")
    /\ LET S == TxByCon(r.inCon) IN
       \/ Set(p, CoFault(r)) /\ UNCHANGED sort
       \/ S = {} /\ Set(p, CoThrow(r, "Transaction not found.")) /\ UNCHANGED sort
       \/ /\ S # {}
          /\ \E srt \in SortOrders(S) :
               sort' = srt /\ Set(p, CoResolved(r, First(S, srt)))
    /\ UNCHANGED <<txs, orders, carts, provider, ip, hist, client, config>>

\* createSveaAuthHeaders, GET {checkoutApiUrl}/api/orders/{sveaOrderId}, then
\* the Status check
CoFetch(p) ==
    LET r == [procs[p] EXCEPT !.fetched = TRUE] IN
    /\ At(p, "confirm", "fetch")
    /\ \/ /\ MissingCredentials
          /\ Set(p, CoThrow(procs[p], "Merchant ID and secret key are required"))
       \/ ~MissingCredentials /\ Set(p, CoFault(r))
       \/ /\ ~MissingCredentials /\ ~PoKnown(r.sveaOrderId)
          /\ Set(p, CoThrow(r, "Failed to fetch Svea order"))
       \/ /\ ~MissingCredentials /\ PoKnown(r.sveaOrderId)
          /\ Set(p, IF PoStatus(r.sveaOrderId) # "Final"
                    THEN CoThrow(r, "Svea order is not finalized.")
                    ELSE [r EXCEPT !.pc = "getCart",
                                   !.poCon = provider[r.sveaOrderId - PoBase].con])
    /\ UNCHANGED <<txs, orders, carts, provider, ip, hist, client, config, sort>>

\* normalizeCartItems(cart), falling back to the transaction's items
CoOrderItems(cartItems, txItems) ==
    IF normalizeCartItems(cartItems) = 0 /\ txItems > 0
    THEN normalizeCartItems(txItems) ELSE normalizeCartItems(cartItems)

\* payload.findByID cart; then transaction.order decides whether to look up
CoGetCart(p) ==
    LET r == procs[p] IN
    /\ At(p, "confirm", "getCart")
    /\ \/ Set(p, CoFault(r))
       \/ r.txn.cart = None /\ Set(p, CoThrow(r, "Cart not found."))
       \/ /\ r.txn.cart # None
          /\ LET r1 == [r EXCEPT !.items =
                           CoOrderItems(carts[r.txn.cart].items, r.txn.items)]
             IN Set(p, IF r.txn.order # None
                       THEN [r1 EXCEPT !.existing = r.txn.order, !.pc = "findOrder"]
                       ELSE [r1 EXCEPT !.pc = "lookup"])
    /\ UNCHANGED <<txs, orders, carts, provider, ip, hist, client, config, sort>>

\* payload.find orders where transactions contains transaction.id
CoLookup(p) ==
    LET r == procs[p] IN
    /\ At(p, "confirm", "lookup")
    /\ LET S == OrdersContaining(r.txn.id) IN
       \/ Set(p, CoFault(r)) /\ UNCHANGED sort
       \/ S = {} /\ Set(p, [r EXCEPT !.pc = "createOrder"]) /\ UNCHANGED sort
       \/ /\ S # {}
          /\ \E srt \in SortOrders(S) :
               /\ sort' = srt
               /\ Set(p, [r EXCEPT !.existing = First(S, srt), !.pc = "findOrder"])
    /\ UNCHANGED <<txs, orders, carts, provider, ip, hist, client, config>>

\* payload.findByID order (existingOrderId) and the merge of its transactions
CoFindOrder(p) ==
    LET r == procs[p] IN
    /\ At(p, "confirm", "findOrder")
    /\ \/ Set(p, CoFault(r))
       \/ r.existing \notin 1..Len(orders) /\ Set(p, CoThrow(r, "Not Found"))
       \/ /\ r.existing \in 1..Len(orders)
          /\ Set(p, [r EXCEPT !.pc = "updateOrder",
                 !.merged = mergedTransactionIds(orders[r.existing].transactions, r.txn.id)])
    /\ UNCHANGED <<txs, orders, carts, provider, ip, hist, client, config, sort>>

\* payload.update order { ...orderPayload, transactions: mergedTransactionIds }
CoUpdateOrder(p) ==
    LET r == procs[p] IN
    /\ At(p, "confirm", "updateOrder")
    /\ \/ Set(p, CoFault(r)) /\ UNCHANGED orders
       \/ /\ orders' = [orders EXCEPT ![r.existing] =
                            [transactions |-> r.merged, items |-> r.items]]
          /\ Set(p, [r EXCEPT !.ord = r.existing, !.pc = "updateCart"])
    /\ UNCHANGED <<txs, carts, provider, ip, hist, client, config, sort>>

\* payload.create order (orderPayload)
CoCreateOrder(p) ==
    LET r == procs[p] IN
    /\ At(p, "confirm", "createOrder")
    /\ \/ Set(p, CoFault(r)) /\ UNCHANGED orders
       \/ /\ orders' = Append(orders, [transactions |-> <<r.txn.id>>, items |-> r.items])
          /\ Set(p, [r EXCEPT !.ord = Len(orders) + 1, !.created = Len(orders) + 1,
                              !.pc = "updateCart"])
    /\ UNCHANGED <<txs, carts, provider, ip, hist, client, config, sort>>

\* try { payload.update cart { status: 'purchased', items: [] } } catch { logger.warn }
CoUpdateCart_Propagates(p) ==
    LET r == procs[p] IN
    /\ At(p, "confirm", "updateCart")
    /\ \/ Set(p, CoFault(r)) /\ UNCHANGED carts
       \/ /\ carts' = [carts EXCEPT ![r.txn.cart] = PurchasedCart]
          /\ Set(p, [r EXCEPT !.pc = "updateTx"])
    /\ UNCHANGED <<txs, orders, provider, ip, hist, client, config, sort>>
CoUpdateCart(p) ==
    LET r == procs[p] IN
    /\ At(p, "confirm", "updateCart")
    /\ \/ Set(p, [r EXCEPT !.faulted = TRUE, !.pc = "updateTx"]) /\ UNCHANGED carts
       \/ /\ carts' = [carts EXCEPT ![r.txn.cart] = PurchasedCart]
          /\ Set(p, [r EXCEPT !.pc = "updateTx"])
    /\ UNCHANGED <<txs, orders, provider, ip, hist, client, config, sort>>

\* payload.update transaction { order, status: 'succeeded', svea: {...} }
CoUpdateTx_LinksCreated(p) ==
    LET r == procs[p] IN
    /\ At(p, "confirm", "updateTx")
    /\ \/ Set(p, CoFault(r)) /\ UNCHANGED txs
       \/ /\ txs' = [txs EXCEPT ![r.txn.id].order = r.created,
                                ![r.txn.id].status = "succeeded",
                                ![r.txn.id].orderId = r.sveaOrderId,
                                ![r.txn.id].con =
                                    IF r.txn.con # None THEN r.txn.con ELSE r.poCon]
          /\ Set(p, CoReturn(r, r.ord))
    /\ UNCHANGED <<orders, carts, provider, ip, hist, client, config, sort>>
CoUpdateTx(p) ==
    LET r == procs[p] IN
    /\ At(p, "confirm", "updateTx")
    /\ \/ Set(p, CoFault(r)) /\ UNCHANGED txs
       \/ /\ txs' = [txs EXCEPT ![r.txn.id].order = r.ord,
                                ![r.txn.id].status = "succeeded",
                                ![r.txn.id].orderId = r.sveaOrderId,
                                ![r.txn.id].con =
                                    IF r.txn.con # None THEN r.txn.con ELSE r.poCon]
          /\ Set(p, CoReturn(r, r.ord))
    /\ UNCHANGED <<orders, carts, provider, ip, hist, client, config, sort>>

\* ---- validation callback (createSveaValidationCallbackHandler) ----------
\* NextResponse.json({ Valid: true, ...extra }, { status: 200, headers })
sveaOkResponse_500(r, extra) ==
    Answer([r EXCEPT !.valid = "true", !.extra = extra], 500)
sveaOkResponse(r, extra) ==
    Answer([r EXCEPT !.valid = "true", !.extra = extra], 200)

\* NextResponse.json({ Valid: false, Message }, { status: 200, headers })
VcReject_Ok(r) == Answer([r EXCEPT !.valid = "true", !.extra = "Message"], 200)
VcReject(r) == Answer([r EXCEPT !.valid = "false", !.extra = "Message"], 200)

\* catch (error) { ... return sveaOkResponse({ Error: errorMessage }) }
VcCatch_Invalid(r) ==
    Answer([r EXCEPT !.faulted = TRUE, !.valid = "false", !.extra = "Error"], 200)
VcCatch(r) == sveaOkResponse([r EXCEPT !.faulted = TRUE], "Error")

\* body.OrderId || body.orderId || orderIdFromUrl
VcOrderId(body, bOid, uOid) == IF body = "object" /\ bOid # None THEN bOid ELSE uOid

\* if (!orderId)
VcMissingOrderId_Never(orderId) == FALSE
VcMissingOrderId(orderId) == orderId = None

\* GET and OPTIONS answer at once; POST and PUT run handleValidationRequest:
\* getPayload, the order id from the path, the body, the EventName branch,
\* the missing-OrderId check
VcStart(p) ==
    /\ CanStart(p)
    /\ \E method \in Methods, body \in BodyKinds, event \in BOOLEAN,
          bOid \in PoIdIn, uOid \in PoIdIn, pred \in Preds, fault \in BOOLEAN :
         /\ body # "object" => (bOid = None /\ ~event)
         /\ method \in {"GET", "OPTIONS"} =>
                (body = "object" /\ ~event /\ bOid = None /\ uOid = None /\ ~fault)
         /\ LET orderId == VcOrderId(body, bOid, uOid)
                r == [IdleProc EXCEPT !.kind = "validation", !.method = method,
                         !.body = body, !.event = event, !.pred = pred,
                         !.inOrderId = orderId]
            IN StartIn(p,
                 IF method = "GET" THEN sveaOkResponse(r, "")
                 ELSE IF method = "OPTIONS" THEN Answer(r, 200)
                 ELSE IF fault \/ body = "null" THEN VcCatch(r)
                 ELSE IF event
                 THEN IF orderId # None THEN [r EXCEPT !.pc = "vcEventFind"]
                      ELSE sveaOkResponse(r, "")
                 ELSE IF VcMissingOrderId(orderId)
                 THEN sveaOkResponse(r, "Warning: Missing OrderId")
                 ELSE [r EXCEPT !.pc = "vcFind"])
    /\ UNCHANGED <<txs, orders, carts, provider, ip, hist, client, config, sort>>

\* EventName branch: payload.find transactions by svea.orderId, then sveaOkResponse()
VcEventFind_Validates(p) ==
    /\ At(p, "validation", "vcEventFind")
    /\ Set(p, [procs[p] EXCEPT !.pc = "vcFind"])
    /\ UNCHANGED <<txs, orders, carts, provider, ip, hist, client, config, sort>>
VcEventFind(p) ==
    /\ At(p, "validation", "vcEventFind")
    /\ \/ Set(p, VcCatch(procs[p]))
       \/ Set(p, sveaOkResponse(procs[p], ""))
    /\ UNCHANGED <<txs, orders, carts, provider, ip, hist, client, config, sort>>

\* transaction found: customValidation configured or not
VcFound(r, tx) ==
    LET r1 == [r EXCEPT !.txn = tx] IN
    IF r.pred = "none" THEN sveaOkResponse(r1, "OrderId, TransactionId")
    ELSE [r1 EXCEPT !.pc = "vcValidate"]

\* payload.find transactions by svea.orderId
VcFind(p) ==
    /\ At(p, "validation", "vcFind")
    /\ LET S == TxByOrderId(procs[p].inOrderId) IN
       \/ Set(p, VcCatch(procs[p])) /\ UNCHANGED sort
       \/ /\ S = {}
          /\ Set(p, sveaOkResponse(procs[p], "Warning: Transaction not found"))
          /\ UNCHANGED sort
       \/ /\ S # {}
          /\ \E srt \in SortOrders(S) :
               sort' = srt /\ Set(p, VcFound(procs[p], TxDoc(First(S, srt))))
    /\ UNCHANGED <<txs, orders, carts, provider, ip, hist, client, config>>

\* await options.customValidation({ orderId, transaction, body })
VcValidate(p) ==
    LET r == [procs[p] EXCEPT !.invoked = TRUE] IN
    /\ At(p, "validation", "vcValidate")
    /\ Set(p, IF r.pred = "true" THEN sveaOkResponse(r, "OrderId, TransactionId")
              ELSE VcReject(r))
    /\ UNCHANGED <<txs, orders, carts, provider, ip, hist, client, config, sort>>

\* ---- confirmation page (SveaConfirmOrder) --------------------------------
\* a query parameter or a field of the stored record: not there, there with
\* an empty value, or there with a value
ParamIn == {"absent", "empty", "value"}
NoParams == [orderId |-> "absent", transactionId |-> "absent",
             clientOrderNumber |-> "absent"]
\* window.location: the identifiers in the query string and the path
Urls == [orderId : ParamIn, transactionId : ParamIn, clientOrderNumber : ParamIn]
\* window.sessionStorage[storageKey]: nothing, text that is not JSON, a
\* storage that throws on access, or the record saved at checkout
NoSession == [kind |-> "none", ids |-> NoParams]
Sessions ==
    {NoSession, [kind |-> "corrupt", ids |-> NoParams],
     [kind |-> "blocked", ids |-> NoParams]}
      \cup {[kind |-> "record", ids |-> i] :
              i \in [orderId : {"absent", "value"}, transactionId : {"absent", "value"},
                     clientOrderNumber : {"absent", "value"}]}

\* the component before it is mounted; its state starts as in useState(...)
ClUnmounted ==
    [pc |-> "unmounted", url |-> NoParams, session |-> NoSession,
     confirmationState |-> "idle", confirmationError |-> "",
     storedSveaOrder |-> NoParams, hasCheckedStorage |-> FALSE,
     isConfirming |-> FALSE, urlParams |-> NoParams,
     sent |-> 0, removed |-> FALSE, clearCart |-> "notyet",
     onSuccess |-> "notyet", onError |-> FALSE, retries |-> 0]

\* a ?? b
Nullish(a, b) == IF a # "absent" THEN a ELSE b
\* urlParams.x ?? storedSveaOrder?.x ?? undefined
resolvedOrderId(c) == Nullish(c.urlParams.orderId, c.storedSveaOrder.orderId)
resolvedTransactionId(c) ==
    Nullish(c.urlParams.transactionId, c.storedSveaOrder.transactionId)
resolvedClientOrderNumber(c) ==
    Nullish(c.urlParams.clientOrderNumber, c.storedSveaOrder.clientOrderNumber)
\* !x of a string or undefined
Falsy(x) == x \in {"absent", "empty"}

\* the page is opened: first render
ClMount ==
    /\ client.pc = "unmounted"
    /\ \E url \in Urls, session \in Sessions :
         client' = [ClUnmounted EXCEPT !.pc = "urlEffect", !.url = url,
                                       !.session = session]
    /\ UNCHANGED <<txs, orders, carts, provider, procs, ip, hist, sort, config>>

\* useEffect: setUrlParams from window.location
ClUrlEffect ==
    /\ client.pc = "urlEffect"
    /\ client' = [client EXCEPT !.urlParams = client.url, !.pc = "storageEffect"]
    /\ UNCHANGED <<txs, orders, carts, provider, procs, ip, hist, sort, config>>

\* useEffect: sessionStorage.getItem, JSON.parse, setStoredSveaOrder;
\* catch { warn } finally { setHasCheckedStorage(true) }
ClStorageEffect ==
    /\ client.pc = "storageEffect"
    /\ client' = [client EXCEPT
                    !.storedSveaOrder = IF client.session.kind = "record"
                                        THEN client.session.ids ELSE NoParams,
                    !.hasCheckedStorage = TRUE, !.pc = "rendered"]
    /\ UNCHANGED <<txs, orders, carts, provider, procs, ip, hist, sort, config>>

\* setConfirmationState('failed'); setConfirmationError(msg); onError?.(error)
ClFailed(c, msg) ==
    [c EXCEPT !.confirmationState = "failed", !.confirmationError = msg,
              !.onError = TRUE, !.pc = "rendered"]

\* handleConfirmation up to its first await
handleConfirmation(c) ==
    IF c.isConfirming THEN c
    ELSE IF Falsy(resolvedOrderId(c)) /\ Falsy(resolvedClientOrderNumber(c))
              /\ Falsy(resolvedTransactionId(c))
    THEN IF ~c.hasCheckedStorage THEN c
         ELSE [c EXCEPT !.confirmationState = "failed",
                        !.confirmationError = "Missing order identifiers."]
    ELSE [c EXCEPT !.isConfirming = TRUE, !.confirmationState = "confirming",
                   !.pc = "api", !.sent = c.sent + 1, !.removed = FALSE,
                   !.clearCart = "notyet", !.onSuccess = "notyet", !.onError = FALSE]

\* useEffect: if (confirmationState === 'idle' && hasCheckedStorage) handleConfirmation()
ClAutoTrigger ==
    /\ client.pc \in {"storageEffect", "rendered"}
    /\ client' = IF client.confirmationState = "idle" /\ client.hasCheckedStorage
                 THEN handleConfirmation(client) ELSE client
    /\ UNCHANGED <<txs, orders, carts, provider, procs, ip, hist, sort, config>>

\* confirmOrderApi settles: a result with orderID, one without, or a throw.
\* With an orderID the stored record is removed and clearCart is called.
ClApiResult ==
    /\ client.pc = "api"
    /\ \E res \in {"orderID", "noOrderID", "throws"},
          cc \in {"absent", "ok", "throws", "rejects"} :
         /\ res # "orderID" => cc = "absent"
         /\ client' =
              IF res = "throws" THEN ClFailed(client, "Failed to confirm order")
              ELSE IF res = "noOrderID"
              THEN ClFailed(client, "We were unable to locate your order after payment.")
              ELSE IF client.session.kind = "blocked"
              THEN ClFailed(client, "storage")
              ELSE [client EXCEPT !.session = NoSession, !.removed = TRUE,
                                  !.clearCart = cc, !.pc = "clearCart"]
    /\ UNCHANGED <<txs, orders, carts, provider, procs, ip, hist, sort, config>>

\* try { await Promise.resolve(clearCart?.()) } catch { warn }, then
\* setConfirmationState('success'); onSuccess?.(result); a throw of onSuccess
\* lands in the outer catch, in the same batch of updates or after a render
ClAfterClearCart_Propagates ==
    /\ client.pc = "clearCart"
    /\ \E os \in {"absent", "ok", "throws"}, redirect \in BOOLEAN, batched \in BOOLEAN :
         /\ os = "throws" => ~redirect
         /\ os # "throws" => batched
         /\ client' =
              LET c == [client EXCEPT !.onSuccess = os] IN
              IF client.clearCart \in {"throws", "rejects"} THEN ClFailed(client, "cart")
              ELSE IF os = "throws"
              THEN IF batched THEN ClFailed(c, "onSuccess")
                   ELSE [c EXCEPT !.confirmationState = "success", !.pc = "catch"]
              ELSE [c EXCEPT !.confirmationState = "success",
                             !.pc = IF redirect THEN "redirect" ELSE "rendered"]
    /\ UNCHANGED <<txs, orders, carts, provider, procs, ip, hist, sort, config>>
ClAfterClearCart ==
    /\ client.pc = "clearCart"
    /\ \E os \in {"absent", "ok", "throws"}, redirect \in BOOLEAN, batched \in BOOLEAN :
         /\ os = "throws" => ~redirect
         /\ os # "throws" => batched
         /\ client' =
              LET c == [client EXCEPT !.onSuccess = os] IN
              IF os = "throws"
              THEN IF batched THEN ClFailed(c, "onSuccess")
                   ELSE [c EXCEPT !.confirmationState = "success", !.pc = "catch"]
              ELSE [c EXCEPT !.confirmationState = "success",
                             !.pc = IF redirect THEN "redirect" ELSE "rendered"]
    /\ UNCHANGED <<txs, orders, carts, provider, procs, ip, hist, sort, config>>

\* catch (error) { setConfirmationState('failed'); ...; onError?.(...) }
ClCatch ==
    /\ client.pc = "catch"
    /\ client' = ClFailed(client, "onSuccess")
    /\ UNCHANGED <<txs, orders, carts, provider, procs, ip, hist, sort, config>>

\* if (autoRedirect): after 100 ms buildRedirectUrl(...) and the navigation;
\* a throw of buildRedirectUrl lands in the outer catch
ClRedirect ==
    /\ client.pc = "redirect"
    /\ \/ client' = [client EXCEPT !.pc = "left"]
       \/ client' = ClFailed(client, "buildRedirectUrl")
    /\ UNCHANGED <<txs, orders, carts, provider, procs, ip, hist, sort, config>>

\* retry, handed to renderFailed: isConfirming.current = false, state idle
ClRetry ==
    /\ client.pc = "rendered" /\ client.confirmationState = "failed"
    /\ client.retries < MaxRetries
    /\ client' = [client EXCEPT !.isConfirming = FALSE, !.confirmationState = "idle",
                                !.confirmationError = "",
                                !.retries = client.retries + 1]
    /\ UNCHANGED <<txs, orders, carts, provider, procs, ip, hist, sort, config>>

\* ---- the caller receives the answer -------------------------------------
\* what is kept of an answered invocation
Summary(r) == [kind |-> r.kind, inOrderId |-> r.inOrderId, inTxId |-> r.inTxId,
               inCon |-> r.inCon, tx |-> r.txn.id, http |-> r.http,
               result |-> r.result]

\* the response leaves the handler; the invocation is over
Retire(p) ==
    /\ procs[p].pc = "done"
    /\ Set(p, [IdleProc EXCEPT !.pc = "gone"])
    /\ UNCHANGED <<txs, orders, carts, provider, ip, hist, client, config, sort>>

\* the response leaves the handler and the slot serves the next request
Recycle(p) ==
    /\ procs[p].pc = "done"
    /\ Set(p, IdleProc)
    /\ UNCHANGED <<txs, orders, carts, provider, ip, hist, client, config, sort>>

\* as Recycle, and the answered invocation is kept (the latest MaxHist of them)
\* for comparison with the invocations that follow it
RecycleKeep(p) ==
    /\ procs[p].pc = "done"
    /\ hist' = IF Len(hist) < MaxHist THEN Append(hist, Summary(procs[p]))
                ELSE Append(Tail(hist), Summary(procs[p]))
    /\ Set(p, IdleProc)
    /\ UNCHANGED <<txs, orders, carts, provider, ip, sort, client, config>>

\* ---- specifications ----------------------------------------------------
Init ==
    /\ txs = <<>>
    /\ orders = <<>>
    /\ carts = [c \in CartIds |-> [status |-> "active", items |-> CartItems]]
    /\ provider = <<>>
    /\ procs = [p \in Procs |-> IdleProc]
    /\ ip = IdleIp
    /\ hist = <<>>
    /\ sort = "any"
    /\ client = ClUnmounted
    /\ config = Configured

\* invocations of the three entry points interleave at every await; each of
\* the NumProcs invocations runs once
Next ==
    \/ Len(provider) < MaxTxConc /\ InitiatePayment
    \/ IpReturn
    \/ ProviderFinalize
    \/ \E p \in Procs : WhStart(p)
    \/ \E p \in Procs : WhFindTx(p)
    \/ \E p \in Procs : WhUpdateTx(p)
    \/ \E p \in Procs : WhLookup(p)
    \/ \E p \in Procs : WhGetCart(p)
    \/ \E p \in Procs : WhCreateOrder(p)
    \/ \E p \in Procs : WhLinkTx(p)
    \/ \E p \in Procs : WhUpdateCart(p)
    \/ \E p \in Procs : WhCancel(p)
    \/ \E p \in Procs : CoStart(p)
    \/ \E p \in Procs : CoFindById(p)
    \/ \E p \in Procs : CoFindByOrder(p)
    \/ \E p \in Procs : CoFindByCon(p)
    \/ \E p \in Procs : CoFetch(p)
    \/ \E p \in Procs : CoGetCart(p)
    \/ \E p \in Procs : CoLookup(p)
    \/ \E p \in Procs : CoFindOrder(p)
    \/ \E p \in Procs : CoUpdateOrder(p)
    \/ \E p \in Procs : CoCreateOrder(p)
    \/ \E p \in Procs : CoUpdateCart(p)
    \/ \E p \in Procs : CoUpdateTx(p)
    \/ \E p \in Procs : Retire(p)

Spec == Init /\ [][Next]_vars

\* invocations of the webhook and of confirm-order do not overlap; any number
\* of them follow one another
NextSeq ==
    \/ InitiatePayment
    \/ IpReturn
    \/ ProviderFinalize
    \/ AllIdle /\ \E p \in Procs : WhStart(p)
    \/ \E p \in Procs : WhFindTx(p)
    \/ \E p \in Procs : WhUpdateTx(p)
    \/ \E p \in Procs : WhLookup(p)
    \/ \E p \in Procs : WhGetCart(p)
    \/ \E p \in Procs : WhCreateOrder(p)
    \/ \E p \in Procs : WhLinkTx(p)
    \/ \E p \in Procs : WhUpdateCart(p)
    \/ \E p \in Procs : WhCancel(p)
    \/ AllIdle /\ \E p \in Procs : CoStart(p)
    \/ \E p \in Procs : CoFindById(p)
    \/ \E p \in Procs : CoFindByOrder(p)
    \/ \E p \in Procs : CoFindByCon(p)
    \/ \E p \in Procs : CoFetch(p)
    \/ \E p \in Procs : CoGetCart(p)
    \/ \E p \in Procs : CoLookup(p)
    \/ \E p \in Procs : CoFindOrder(p)
    \/ \E p \in Procs : CoUpdateOrder(p)
    \/ \E p \in Procs : CoCreateOrder(p)
    \/ \E p \in Procs : CoUpdateCart(p)
    \/ \E p \in Procs : CoUpdateTx(p)
    \/ \E p \in Procs : Recycle(p)

SpecSeq == Init /\ [][NextSeq]_vars

\* as SpecSeq, with the latest answered invocations kept
NextRetry ==
    \/ Len(provider) < MaxTxRetry /\ InitiatePayment
    \/ IpReturn
    \/ ProviderFinalize
    \/ AllIdle /\ \E p \in Procs : WhStart(p)
    \/ \E p \in Procs : WhFindTx(p)
    \/ \E p \in Procs : WhUpdateTx(p)
    \/ \E p \in Procs : WhLookup(p)
    \/ \E p \in Procs : WhGetCart(p)
    \/ \E p \in Procs : WhCreateOrder(p)
    \/ \E p \in Procs : WhLinkTx(p)
    \/ \E p \in Procs : WhUpdateCart(p)
    \/ \E p \in Procs : WhCancel(p)
    \/ AllIdle /\ \E p \in Procs : CoStart(p)
    \/ \E p \in Procs : CoFindById(p)
    \/ \E p \in Procs : CoFindByOrder(p)
    \/ \E p \in Procs : CoFindByCon(p)
    \/ \E p \in Procs : CoFetch(p)
    \/ \E p \in Procs : CoGetCart(p)
    \/ \E p \in Procs : CoLookup(p)
    \/ \E p \in Procs : CoFindOrder(p)
    \/ \E p \in Procs : CoUpdateOrder(p)
    \/ \E p \in Procs : CoCreateOrder(p)
    \/ \E p \in Procs : CoUpdateCart(p)
    \/ \E p \in Procs : CoUpdateTx(p)
    \/ \E p \in Procs : RecycleKeep(p)

SpecRetry == Init /\ [][NextRetry]_vars

\* validation callbacks overlap with webhook deliveries
NextVc ==
    \/ Len(provider) < MaxTxConc /\ InitiatePayment
    \/ IpReturn
    \/ \E p \in Procs : WhStart(p)
    \/ \E p \in Procs : WhFindTx(p)
    \/ \E p \in Procs : WhUpdateTx(p)
    \/ \E p \in Procs : WhLookup(p)
    \/ \E p \in Procs : WhGetCart(p)
    \/ \E p \in Procs : WhCreateOrder(p)
    \/ \E p \in Procs : WhLinkTx(p)
    \/ \E p \in Procs : WhUpdateCart(p)
    \/ \E p \in Procs : WhCancel(p)
    \/ \E p \in Procs : VcStart(p)
    \/ \E p \in Procs : VcEventFind(p)
    \/ \E p \in Procs : VcFind(p)
    \/ \E p \in Procs : VcValidate(p)
    \/ \E p \in Procs : Retire(p)

SpecVc == Init /\ [][NextVc]_vars

\* initiatePayment calls, customers completing payments at the provider, and
\* the provider's validation callbacks, none overlapping another
NextIp ==
    \/ AllIdle /\ InitiatePayment
    \/ IpReturn
    \/ ProviderFinalize
    \/ AllIdle /\ \E p \in Procs : VcStart(p)
    \/ \E p \in Procs : VcEventFind(p)
    \/ \E p \in Procs : VcFind(p)
    \/ \E p \in Procs : VcValidate(p)
    \/ \E p \in Procs : Recycle(p)

SpecIp == Init /\ [][NextIp]_vars

\* the confirmation page from its first render on, whatever its confirm-order
\* requests are answered
NextClient ==
    \/ ClMount
    \/ ClUrlEffect
    \/ ClStorageEffect
    \/ ClAutoTrigger
    \/ ClApiResult
    \/ ClAfterClearCart
    \/ ClCatch
    \/ ClRedirect
    \/ ClRetry

SpecClient == Init /\ [][NextClient]_vars

\* confirm-order calls, one at a time, for the transaction of one
\* initiatePayment
NextCo ==
    \/ Len(provider) < MaxTxConc /\ InitiatePayment
    \/ IpReturn
    \/ ProviderFinalize
    \/ AllIdle /\ \E p \in Procs : CoStart(p)
    \/ \E p \in Procs : CoFindById(p)
    \/ \E p \in Procs : CoFindByOrder(p)
    \/ \E p \in Procs : CoFindByCon(p)
    \/ \E p \in Procs : CoFetch(p)
    \/ \E p \in Procs : CoGetCart(p)
    \/ \E p \in Procs : CoLookup(p)
    \/ \E p \in Procs : CoFindOrder(p)
    \/ \E p \in Procs : CoUpdateOrder(p)
    \/ \E p \in Procs : CoCreateOrder(p)
    \/ \E p \in Procs : CoUpdateCart(p)
    \/ \E p \in Procs : CoUpdateTx(p)
    \/ \E p \in Procs : Recycle(p)

SpecCo == Init /\ [][NextCo]_vars

\* as NextCo, with transactions whose provider order id was never stored
NextBackfill ==
    \/ InitiatePaymentNoOrderId
    \/ NextCo

SpecBackfill == Init /\ [][NextBackfill]_vars

\* sveaAdapter(config) and the handler factories: the configuration is
\* destructured and kept, whatever the credentials are
Setup ==
    /\ AllIdle /\ ip.pc = "idle"
    /\ \E c \in Configs : c # config /\ config' = c
    /\ UNCHANGED <<txs, orders, carts, provider, procs, ip, hist, sort, client>>

\* as NextCo, the adapter and the handler being created anew between requests
NextSetup ==
    \/ Setup
    \/ NextCo

SpecSetup == Init /\ [][NextSetup]_vars

\* ---- properties ---------------------------------------------------------
\* the Orders whose linked-transactions list holds transaction t
Listing(t) ==
    {o \in DOMAIN orders :
        \E k \in DOMAIN orders[o].transactions : orders[o].transactions[k] = t}

\* the store is left as it was by the step
StoreUnchanged == txs' = txs /\ orders' = orders /\ carts' = carts

\* r is a finalization that ran to its end: a webhook delivery with status
\* Final for a stored transaction that met no failing call, or a confirm-order
\* call answered with success (the provider order was Final, or the
\* transaction was already processed)
Finalized(r) ==
    \/ r.kind = "webhook" /\ r.inStatus = "Final" /\ r.txn.id # None /\ ~r.faulted
    \/ r.kind = "confirm" /\ r.http = 200

\* C1: when webhook deliveries with status Final and confirm-order calls do
\* not overlap, then however many of them run and in whatever order, no
\* transaction is ever listed in more than one Order, and when such an
\* invocation has answered its transaction is succeeded and listed in exactly
\* one Order; an Order an invocation created is that one Order.
C1_IdempotentFinalization ==
    /\ \A t \in DOMAIN txs : Cardinality(Listing(t)) <= 1
    /\ \A p \in Procs :
         (procs[p].pc = "done" /\ Finalized(procs[p])) =>
            /\ txs[procs[p].txn.id].status = "succeeded"
            /\ Cardinality(Listing(procs[p].txn.id)) = 1
            /\ procs[p].created # None => Listing(procs[p].txn.id) = {procs[p].created}

\* a finalization has answered without creating an Order, for a transaction
\* an earlier invocation had already given its Order
C1_Witness ==
    \E p \in Procs :
        /\ procs[p].pc = "done" /\ Finalized(procs[p])
        /\ procs[p].created = None
        /\ Cardinality(Listing(procs[p].txn.id)) = 1

\* C2 as stated: also when finalizations overlap, a transaction is listed in
\* the linked-transactions of at most one Order.
C2_AtMostOneOrder ==
    \A t \in DOMAIN txs : Cardinality(Listing(t)) <= 1

\* C2: overlapping finalizations of one transaction narrow the duplicate-Order
\* race without closing it.  An invocation goes on from its existing-order
\* lookup to create an Order only if no Order listed the transaction when the
\* lookup ran, and each invocation creates at most one Order, so a
\* transaction is listed in at most as many Orders as invocations overlapped.
C2_NarrowedRace ==
    /\ [](\A t \in DOMAIN txs : Cardinality(Listing(t)) <= NumProcs)
    /\ [][\A p \in Procs :
            (procs[p].pc = "lookup" /\ procs'[p].pc \in {"getCart", "createOrder"})
                => Listing(procs[p].txn.id) = {}]_vars
    /\ [][\A p \in Procs :
            (procs[p].pc = "createOrder" /\ procs'[p].created # None)
                => /\ procs[p].created = None
                   /\ Len(orders') = Len(orders) + 1]_vars

\* two invocations read the same never-finalized transaction; one has created
\* the Order and the other's lookup has found it
C2_Witness ==
    \E p, q \in Procs :
        /\ p # q
        /\ procs[p].created # None
        /\ procs[q].pc = "findOrder" /\ procs[q].existing = procs[p].created
        /\ procs[q].txn.id = procs[p].txn.id
        /\ procs[p].txn.status = "pending" /\ procs[q].txn.status = "pending"

\* C3 as stated: every transaction listed in an Order has a provider order
\* that is Final at the provider.
C3_OnlyFinalMaterializes ==
    \A o \in DOMAIN orders : \A k \in DOMAIN orders[o].transactions :
        LET oid == txs[orders[o].transactions[k]].orderId IN
        /\ oid - PoBase \in DOMAIN provider
        /\ provider[oid - PoBase].status = "Final"

\* C4: a finalization event (a webhook delivery with status Final, or a
\* confirm-order call) that reads a transaction which is succeeded and linked
\* to an Order answers at once with success: the step that reads it is its
\* last, the steps before it and that step write no transaction, Order or
\* cart, no Order is created, and confirm-order returns the linked Order
\* without having called the provider.
C4_IdempotencyGate ==
    [][\A p \in Procs :
        LET r == procs[p]
            r2 == procs'[p]
        IN
        /\ (r2 # r /\ r.txn.id = None) => StoreUnchanged
        /\ (/\ r.txn.id = None /\ r2.txn.id # None
            /\ (r2.kind = "confirm" \/ r2.inStatus = "Final")
            /\ txs[r2.txn.id].status = "succeeded"
            /\ txs[r2.txn.id].order # None)
           => /\ r2.pc = "done" /\ r2.http = 200
              /\ r2.created = None
              /\ r2.kind = "confirm" =>
                    (r2.result = txs[r2.txn.id].order /\ ~r2.fetched)]_vars

\* a webhook delivery with status Final has answered for a transaction it
\* read as succeeded and linked
C4_Witness ==
    \E p \in Procs :
        /\ procs[p].pc = "done" /\ procs[p].kind = "webhook"
        /\ procs[p].inStatus = "Final"
        /\ procs[p].txn.status = "succeeded" /\ procs[p].txn.order # None
        /\ procs[p].http = 200

\* the answered invocation that came just before the current one
Previous == hist[Len(hist)]

\* invocation r repeats the successful confirm-order call h
RetryOf(r, h) ==
    /\ r.kind = "confirm" /\ h.kind = "confirm" /\ h.http = 200
    /\ r.inOrderId = h.inOrderId /\ r.inTxId = h.inTxId /\ r.inCon = h.inCon

\* no transaction id occurs twice in the sequence
NoDuplicates(s) == \A i, j \in DOMAIN s : s[i] = s[j] => i = j

\* C5: a confirm-order call that repeats, with the same identifiers, the
\* successful confirm-order call before it and meets no failing call returns
\* success with the same Order id, creates no Order, does not call the
\* provider, and leaves the Order's linked-transactions without duplicates.
C5_RetryIsIdempotent ==
    \A p \in Procs :
        (/\ procs[p].pc = "done" /\ ~procs[p].faulted
         /\ hist # <<>> /\ RetryOf(procs[p], Previous))
        => /\ procs[p].http = 200
           /\ procs[p].result = Previous.result
           /\ procs[p].txn.id = Previous.tx
           /\ procs[p].created = None
           /\ ~procs[p].fetched
           /\ Previous.result \in DOMAIN orders
           /\ NoDuplicates(orders[Previous.result].transactions)
           /\ Listing(Previous.tx) = {Previous.result}

\* a retry by transaction id of a successful confirm-order call has answered
C5_Witness ==
    \E p \in Procs :
        /\ procs[p].pc = "done" /\ ~procs[p].faulted
        /\ hist # <<>> /\ RetryOf(procs[p], Previous)
        /\ procs[p].inTxId # None
        /\ procs[p].result = Previous.result /\ procs[p].result # None

\* the next step of webhook invocation p
WhStep(p) ==
    \/ WhFindTx(p) \/ WhUpdateTx(p) \/ WhLookup(p) \/ WhGetCart(p)
    \/ WhCreateOrder(p) \/ WhLinkTx(p) \/ WhUpdateCart(p) \/ WhCancel(p)

\* C6: whatever the request and whatever happens while it is handled, failing
\* calls included, the webhook's answer is HTTP 200, and a webhook that has
\* not answered yet is never stuck: it has a next step to take.
C6_WebhookAlways200 ==
    \A p \in Procs :
        procs[p].kind = "webhook" =>
            /\ procs[p].pc = "done" => procs[p].http = 200
            /\ (procs[p].pc # "done" /\ NoAnswerPending) => ENABLED WhStep(p)

\* the write of a Cancelled delivery threw and the webhook answered 200
C6_Witness ==
    \E p \in Procs :
        /\ procs[p].pc = "done" /\ procs[p].kind = "webhook"
        /\ procs[p].faulted /\ procs[p].txn.id # None
        /\ procs[p].inStatus = "Cancelled"
        /\ txs[procs[p].txn.id].status # "failed"
        /\ procs[p].http = 200

\* C7 as stated: a webhook request whose body is unparseable, or from which
\* no order id is resolved, is answered with success and mutates nothing.
C7_UnparseableOrMissing ==
    [][\A p \in Procs :
        LET r2 == procs'[p] IN
        (/\ r2 # procs[p] /\ r2.kind = "webhook"
         /\ (r2.body # "object" \/ r2.inOrderId = None))
        => /\ StoreUnchanged
           /\ r2.pc = "done" => r2.http = 200]_vars

\* C7: a webhook request from which no order id is resolved, neither from the
\* body (unparseable or not) nor from the query string nor from the path, is
\* answered with success before any store call and mutates nothing.
C7_NoOrderIdResolved ==
    [][\A p \in Procs :
        LET r2 == procs'[p] IN
        (r2 # procs[p] /\ r2.kind = "webhook" /\ r2.inOrderId = None)
        => /\ StoreUnchanged
           /\ r2.pc = "done" /\ r2.http = 200
           /\ r2.txn.id = None]_vars

\* a request with an unparseable body and no order id in its URL has been
\* answered while a transaction was stored
C7_Witness ==
    \E p \in Procs :
        /\ procs[p].pc = "done" /\ procs[p].kind = "webhook"
        /\ procs[p].body = "unparseable" /\ procs[p].inOrderId = None
        /\ ~procs[p].faulted /\ procs[p].http = 200
        /\ Len(txs) > 0

\* C8: when the order id of a webhook request matches no stored transaction,
\* the lookup is the webhook's last step, it answers with success, and the
\* request has mutated nothing, whatever its status.
C8_UnknownOrderId ==
    [][\A p \in Procs :
        LET r == procs[p]
            r2 == procs'[p]
        IN
        /\ (r2 # r /\ r2.kind = "webhook" /\ r2.txn.id = None) => StoreUnchanged
        /\ (/\ r.kind = "webhook" /\ r.pc = "findTx" /\ r2 # r
            /\ \A i \in DOMAIN txs : txs[i].orderId # r.inOrderId)
           => /\ r2.pc = "done" /\ r2.http = 200
              /\ r2.txn.id = None]_vars

\* a delivery with status Final for an order id no stored transaction has,
\* answered while another transaction was stored
C8_Witness ==
    \E p \in Procs :
        /\ procs[p].pc = "done" /\ procs[p].kind = "webhook"
        /\ procs[p].inOrderId # None /\ procs[p].inStatus = "Final"
        /\ procs[p].txn.id = None /\ ~procs[p].faulted
        /\ procs[p].http = 200
        /\ Len(txs) > 0

\* C9: a webhook delivery with status Cancelled that read its transaction as
\* pending creates no Order and leaves every Order and cart as it was; its
\* write sets that transaction's status to failed and changes nothing else,
\* and the answer is a success response.
C9_CancelledPending ==
    [][\A p \in Procs :
        LET r == procs[p]
            r2 == procs'[p]
        IN
        (/\ r2 # r /\ r2.kind = "webhook" /\ r2.inStatus = "Cancelled"
         /\ r2.txn.id # None /\ r2.txn.status = "pending")
        => /\ orders' = orders /\ carts' = carts
           /\ r2.created = None
           /\ r2.pc \in {"cancel", "done"}
           /\ r2.pc = "cancel" => txs' = txs
           /\ r2.pc = "done" =>
                /\ r2.http = 200
                /\ r.pc = "cancel"
                /\ ~r2.faulted =>
                     txs' = [txs EXCEPT ![r2.txn.id].status = "failed"]]_vars

\* a Cancelled delivery for a transaction read as pending has answered and the
\* transaction is failed, with no Order in the store
C9_Witness ==
    \E p \in Procs :
        /\ procs[p].pc = "done" /\ procs[p].kind = "webhook"
        /\ procs[p].inStatus = "Cancelled" /\ ~procs[p].faulted
        /\ procs[p].txn.id # None /\ procs[p].txn.status = "pending"
        /\ txs[procs[p].txn.id].status = "failed"
        /\ orders = <<>>
        /\ procs[p].http = 200

\* C10: a webhook delivery whose status is neither Final nor Cancelled, an
\* absent status included, writes nothing: it ends at the transaction lookup,
\* whichever transaction that matched.
C10_OtherStatusNoOp ==
    [][\A p \in Procs :
        LET r2 == procs'[p] IN
        (/\ r2 # procs[p] /\ r2.kind = "webhook"
         /\ r2.inStatus \notin {"Final", "Cancelled"})
        => /\ StoreUnchanged
           /\ r2.pc \in {"findTx", "done"}
           /\ r2.pc = "done" => r2.http = 200]_vars

\* a delivery without a status has been answered for a transaction it matched
C10_Witness ==
    \E p \in Procs :
        /\ procs[p].pc = "done" /\ procs[p].kind = "webhook"
        /\ procs[p].inStatus = "" /\ procs[p].inOrderId # None
        /\ procs[p].txn.id # None /\ ~procs[p].faulted
        /\ procs[p].http = 200

C12_OnlyPredicateRejects ==
    \A p \in Procs :
        (procs[p].kind = "validation" /\ procs[p].pc = "done") =>
            /\ procs[p].valid = "false" <=>
                 (procs[p].invoked /\ procs[p].pred \in {"false", "throws"})
            /\ procs[p].invoked =>
                 (procs[p].pred # "none" /\ procs[p].txn.id # None /\ ~procs[p].event)
            /\ (procs[p].method \in {"POST", "PUT"} /\ procs[p].valid # "false")
                 => procs[p].valid = "true"

\* a store call failed in a handler whose predicate would reject: the answer
\* is Valid: true and the predicate was not invoked
C12_Witness ==
    \E p \in Procs :
        /\ procs[p].pc = "done" /\ procs[p].kind = "validation"
        /\ procs[p].faulted /\ procs[p].pred = "false" /\ procs[p].inOrderId # None
        /\ ~procs[p].invoked /\ procs[p].valid = "true"

\* C13 as stated: every answer of the validation callback, on GET, POST, PUT
\* and OPTIONS, has HTTP status 200 and a body carrying a Valid boolean.
C13_ValidOnEveryMethod ==
    \A p \in Procs :
        (procs[p].kind = "validation" /\ procs[p].pc = "done") =>
            (procs[p].http = 200 /\ procs[p].valid \in {"true", "false"})

\* C13: every answer of the validation callback has HTTP status 200, also on
\* rejection by the predicate and on a failing call; on GET, POST and PUT the
\* body carries a Valid boolean, while the answer to OPTIONS has no body.
C13_Always200 ==
    \A p \in Procs :
        (procs[p].kind = "validation" /\ procs[p].pc = "done") =>
            /\ procs[p].http = 200
            /\ procs[p].method \in {"GET", "POST", "PUT"} =>
                 procs[p].valid \in {"true", "false"}
            /\ procs[p].method = "OPTIONS" => procs[p].valid = "none"
            /\ procs[p].method = "GET" => procs[p].valid = "true"

\* the predicate raised and the rejection was answered with HTTP 200
C13_Witness ==
    \E p \in Procs :
        /\ procs[p].pc = "done" /\ procs[p].kind = "validation"
        /\ procs[p].pred = "throws" /\ procs[p].invoked
        /\ procs[p].valid = "false" /\ procs[p].http = 200

\* C14: a validation request (not an event notification) from which no order
\* id is resolved is answered at once, and one whose order id no stored
\* transaction has is answered by the lookup step: Valid: true with a Warning,
\* the predicate not invoked, and no transaction, Order or cart changed.
C14_LookupMissNeverBlocks ==
    [][\A p \in Procs :
        LET r == procs[p]
            r2 == procs'[p]
            Warned(w) == /\ r2.pc = "done" /\ r2.http = 200
                         /\ r2.valid = "true" /\ r2.extra = w
                         /\ ~r2.invoked /\ r2.txn.id = None
                         /\ StoreUnchanged
        IN
        (/\ r2 # r /\ r2.kind = "validation" /\ r2.method \in {"POST", "PUT"}
         /\ ~r2.event /\ ~r2.faulted)
        => /\ (r.pc = "idle" /\ r2.inOrderId = None)
                => Warned("Warning: Missing OrderId")
           /\ (r.pc = "vcFind" /\ \A i \in DOMAIN txs : txs[i].orderId # r.inOrderId)
                => Warned("Warning: Transaction not found")]_vars

\* a request for an order id no stored transaction has was answered with the
\* warning although the predicate would reject and a transaction is stored
C14_Witness ==
    \E p \in Procs :
        /\ procs[p].pc = "done" /\ procs[p].kind = "validation"
        /\ procs[p].extra = "Warning: Transaction not found"
        /\ procs[p].pred = "false" /\ procs[p].valid = "true"
        /\ Len(txs) > 0

\* the three lookups of the identifier resolver
Finders == {"findById", "findByOrder", "findByCon"}

\* C15: the identifier resolver of confirm-order runs its lookups in the
\* order transactionId, provider order id, client order number, skipping the
\* identifiers not supplied; the first hit is the transaction and no later
\* lookup runs; a transactionId lookup that misses or throws falls through
\* to the next strategy; when no strategy yields a transaction the call
\* fails with 'Transaction not found.'.
C15_ResolverOrder ==
    [][\A p \in Procs :
        LET r == procs[p]
            r2 == procs'[p]
            NotFound == /\ r2.pc = "done" /\ r2.http = 500
                        /\ r2.err = "Transaction not found." /\ r2.txn.id = None
            AfterOrder == IF r2.inCon # None
                          THEN r2.pc = "findByCon" /\ r2.txn.id = None
                          ELSE NotFound
            AfterId == IF r2.inOrderId # None
                       THEN r2.pc = "findByOrder" /\ r2.txn.id = None
                       ELSE AfterOrder
            Hit(t) == r2.txn.id = t /\ r2.pc \notin Finders
            Threw == r2.pc = "done" /\ r2.err = "call failed"
        IN
        (r2 # r /\ r2.kind = "confirm") =>
           /\ (r.pc = "idle" /\ r2.body = "object" /\ ~r2.faulted) =>
                 IF r2.inTxId # None THEN r2.pc = "findById" /\ r2.txn.id = None
                 ELSE AfterId
           /\ r.pc = "findById" =>
                 IF r.inTxId \in DOMAIN txs /\ ~r2.faulted THEN Hit(r.inTxId)
                 ELSE AfterId
           /\ (r.pc = "findByOrder" /\ ~Threw) =>
                 IF \E i \in DOMAIN txs : txs[i].orderId = r.inOrderId
                 THEN \E i \in DOMAIN txs : txs[i].orderId = r.inOrderId /\ Hit(i)
                 ELSE AfterOrder
           /\ (r.pc = "findByCon" /\ ~Threw) =>
                 IF \E i \in DOMAIN txs : txs[i].con = r.inCon
                 THEN \E i \in DOMAIN txs : txs[i].con = r.inCon /\ Hit(i)
                 ELSE NotFound]_vars

\* the transactionId named no transaction, the provider order id did, and the
\* client order number, which is not that transaction's, was never looked up
C15_Witness ==
    \E p \in Procs :
        /\ procs[p].kind = "confirm" /\ procs[p].pc = "fetch"
        /\ procs[p].inTxId # None /\ procs[p].inTxId # procs[p].txn.id
        /\ procs[p].inOrderId # None /\ procs[p].inCon # None
        /\ txs[procs[p].txn.id].orderId = procs[p].inOrderId
        /\ txs[procs[p].txn.id].con # procs[p].inCon

\* the provider order id initiatePayment stored with transaction i (the
\* provider numbers its orders and the client order numbers alike)
InitialOrderId(i) == PoBase + (txs[i].con - ConBase)

\* invocation r supplies a non-empty subset of the identifiers initiatePayment
\* returned for transaction i, and nothing else
ConsistentFor(r, i) ==
    /\ r.inTxId \in {None, i}
    /\ r.inOrderId \in {None, InitialOrderId(i)}
    /\ r.inCon \in {None, txs[i].con}
    /\ (r.inTxId # None \/ r.inOrderId # None \/ r.inCon # None)

\* C16 as stated: for every non-empty subset of the identifiers returned by
\* one successful initiatePayment, the resolver of confirm-order returns the
\* transaction that initiatePayment created.
C16_PathIndependence ==
    \A p \in Procs : \A i \in DOMAIN txs :
        (/\ procs[p].kind = "confirm" /\ procs[p].txn.id # None
         /\ ConsistentFor(procs[p], i))
        => procs[p].txn.id = i

\* C19 as stated: in every state, no two succeeded transactions carry the
\* same provider order id.
C19_OneSucceededPerOrderId ==
    \A i, j \in DOMAIN txs :
        (/\ txs[i].status = "succeeded" /\ txs[j].status = "succeeded"
         /\ txs[i].orderId = txs[j].orderId)
        => i = j

\* r is a confirm-order call for a transaction it read as pending that has met
\* no failing call
CleanPending(r) == r.kind = "confirm" /\ r.txn.status = "pending" /\ ~r.faulted

\* C17: when calls do not overlap, a confirm-order call for a transaction read
\* as pending, whose provider order is Final, whose cart holds n >= 1 items
\* and which no Order lists yet, and that meets no failing call, goes through
\* these steps: it takes the n items of the cart, creates one Order with
\* those items listing just the transaction, marks the cart purchased with
\* its items cleared, and sets the transaction succeeded and linked to that
\* Order, which it returns with success.
C17_ConfirmMaterializes ==
    /\ [][\A p \in Procs :
            LET r == procs[p]
                r2 == procs'[p]
                t == r.txn.id
            IN
            (r2 # r /\ CleanPending(r2)) =>
               /\ (r.pc = "getCart" /\ carts[r.txn.cart].items >= 1) =>
                     /\ r2.pc = "lookup" /\ r2.items = carts[r.txn.cart].items
                     /\ StoreUnchanged
               /\ (r.pc = "lookup" /\ Listing(t) = {}) =>
                     r2.pc = "createOrder" /\ StoreUnchanged
               /\ r.pc = "createOrder" =>
                     /\ orders' = Append(orders, [transactions |-> <<t>>,
                                                  items |-> r.items])
                     /\ r2.created = Len(orders) + 1 /\ r2.ord = r2.created
                     /\ r.created = None /\ r2.items = r.items
                     /\ r2.pc = "updateCart"
                     /\ txs' = txs /\ carts' = carts
               /\ r.pc = "updateCart" =>
                     /\ carts' = [carts EXCEPT ![r.txn.cart] =
                                      [status |-> "purchased", items |-> 0]]
                     /\ r2.pc = "updateTx" /\ r2.ord = r.ord
                     /\ txs' = txs /\ orders' = orders
               /\ r.pc = "updateTx" =>
                     /\ txs' = [txs EXCEPT ![t].status = "succeeded",
                                           ![t].order = r.ord,
                                           ![t].orderId = r.sveaOrderId]
                     /\ r2.pc = "done" /\ r2.http = 200 /\ r2.result = r.ord
                     /\ orders' = orders /\ carts' = carts]_vars
    /\ [](\A p \in Procs :
            (/\ procs[p].pc = "done" /\ CleanPending(procs[p])
             /\ procs[p].http = 200 /\ procs[p].created # None)
            => LET t == procs[p].txn.id
                   o == procs[p].created
               IN /\ procs[p].fetched /\ procs[p].result = o
                  /\ Listing(t) = {o}
                  /\ orders[o] = [transactions |-> <<t>>, items |-> CartItems]
                  /\ txs[t].status = "succeeded" /\ txs[t].order = o
                  /\ carts[txs[t].cart] = [status |-> "purchased", items |-> 0])

\* a confirm-order call identified by the client order number alone has
\* created the Order for a pending transaction and answered
C17_Witness ==
    \E p \in Procs :
        /\ procs[p].pc = "done" /\ CleanPending(procs[p])
        /\ procs[p].inCon # None /\ procs[p].inTxId = None /\ procs[p].inOrderId = None
        /\ procs[p].http = 200 /\ procs[p].created # None
        /\ Len(orders) = 1
        /\ txs[procs[p].txn.id].order = procs[p].created

\* the errors of a confirm-order call that fails before materialization
EarlyErrors == {"Transaction not found.", "Svea order ID is required.",
                "Failed to fetch Svea order", "Svea order is not finalized."}

\* C18: a confirm-order call that cannot resolve a transaction, has no
\* provider order id, gets no provider order from the provider, or finds the
\* provider order not Final answers with an explicit error (HTTP 500 with
\* the message), and no step of the call up to that answer changes a
\* transaction, an Order or a cart.
C18_EarlyFailureWritesNothing ==
    [][\A p \in Procs :
        LET r == procs[p]
            r2 == procs'[p]
        IN
        (r2 # r /\ r2.kind = "confirm") =>
           /\ r.pc \in {"idle", "findById", "findByOrder", "findByCon", "fetch"}
                 => StoreUnchanged
           /\ (r2.pc = "done" /\ r2.err \in EarlyErrors) =>
                 /\ r.pc \in {"idle", "findById", "findByOrder", "findByCon", "fetch"}
                 /\ r2.http = 500 /\ r2.result = None /\ r2.created = None
           /\ (r.pc = "fetch" /\ r2.err # "call failed") =>
                 IF r.sveaOrderId - PoBase \notin DOMAIN provider
                 THEN r2.pc = "done" /\ r2.err = "Failed to fetch Svea order"
                 ELSE IF provider[r.sveaOrderId - PoBase].status # "Final"
                 THEN r2.pc = "done" /\ r2.err = "Svea order is not finalized."
                 ELSE r2.pc = "getCart"]_vars

\* a confirm-order call for a stored transaction whose provider order is not
\* Final has answered with the error
C18_Witness ==
    \E p \in Procs :
        /\ procs[p].pc = "done" /\ procs[p].kind = "confirm"
        /\ procs[p].txn.id # None /\ procs[p].fetched
        /\ procs[p].err = "Svea order is not finalized."
        /\ procs[p].http = 500

\* the parts of the transaction lifecycle: creation as pending, no deletion,
\* and a status that no longer changes once it has left pending
CreatedPending ==
    \A i \in DOMAIN txs' : i \notin DOMAIN txs => txs'[i].status = "pending"
NeverDeleted == Len(txs') >= Len(txs)
StatusSetOnce ==
    \A i \in DOMAIN txs :
        (i \in DOMAIN txs' /\ txs[i].status # "pending")
            => txs'[i].status = txs[i].status

\* C20: a transaction is created with status pending, its status is changed
\* to succeeded or failed exactly once (after it has left pending no later
\* webhook or confirm-order call changes it again), and no entry point
\* deletes a transaction.
C20_Lifecycle ==
    [][CreatedPending /\ NeverDeleted /\ StatusSetOnce]_vars

\* the transaction ids of a linked-transactions list, as a set
Linked(list) == {list[k] : k \in DOMAIN list}

\* C21: the linked-transactions list of an Order is a growing set: no write
\* of any entry point removes an id from the list of an existing Order (and
\* no Order disappears), the update of an existing Order writes the ids it
\* had together with the confirming transaction's id, and no list ever holds
\* the same id twice.
C21_LinkedListGrows ==
    /\ [](\A o \in DOMAIN orders : NoDuplicates(orders[o].transactions))
    /\ [][/\ \A o \in DOMAIN orders :
                /\ o \in DOMAIN orders'
                /\ Linked(orders[o].transactions) \subseteq Linked(orders'[o].transactions)
          /\ \A p \in Procs :
                (procs[p].kind = "confirm" /\ procs[p].pc = "updateOrder"
                   /\ procs'[p].pc = "updateCart") =>
                     Linked(orders'[procs[p].existing].transactions)
                        = Linked(orders[procs[p].existing].transactions)
                             \cup {procs[p].txn.id}]_vars

\* a confirm-order call has updated an Order that already existed, written
\* by another invocation
C21_Witness ==
    \E p \in Procs :
        /\ procs[p].kind = "confirm" /\ procs[p].pc = "updateCart"
        /\ procs[p].created = None /\ procs[p].ord # None
        /\ procs[p].txn.id \in Linked(orders[procs[p].ord].transactions)

\* C22: the cart update is best-effort in confirm-order and in the webhook.
\* Whether or not marking the cart purchased succeeds, the step leaves every
\* Order and transaction as it was and does not end the invocation with an
\* error: confirm-order goes on to the transaction update with the same
\* Order, and unless that update itself fails it marks the transaction
\* succeeded, linked to that Order, and returns the Order's id; the webhook
\* answers success.  An Order an answered invocation created is in the store.
C22_CartUpdateBestEffort ==
    /\ [](\A p \in Procs :
            (procs[p].pc = "done" /\ procs[p].created # None) =>
                procs[p].created \in Listing(procs[p].txn.id))
    /\ [][\A p \in Procs :
            LET r == procs[p]
                r2 == procs'[p]
            IN
            /\ (r.pc = "updateCart" /\ r2 # r) =>
                  /\ orders' = orders /\ txs' = txs
                  /\ \/ carts' = carts
                     \/ (carts'[r.txn.cart].status = "purchased"
                           /\ carts'[r.txn.cart].items = 0)
                  /\ r2.err = ""
                  /\ r.kind = "confirm" =>
                        (r2.pc = "updateTx" /\ r2.ord = r.ord /\ r2.created = r.created)
                  /\ r.kind = "webhook" => (r2.pc = "done" /\ r2.http = 200)
            /\ (r.kind = "confirm" /\ r.pc = "updateTx" /\ r2 # r /\ r2.err = "") =>
                  /\ r2.pc = "done" /\ r2.http = 200 /\ r2.result = r.ord
                  /\ txs'[r.txn.id].status = "succeeded"
                  /\ txs'[r.txn.id].order = r.ord
                  /\ orders' = orders]_vars

\* a confirm-order call whose cart update failed (the cart is still active
\* with its items) has created an Order, marked the transaction succeeded
\* with the link, and returned the Order's id
C22_Witness ==
    \E p \in Procs :
        LET r == procs[p] IN
        /\ r.kind = "confirm" /\ r.pc = "done" /\ r.http = 200
        /\ r.faulted /\ r.inTxId = None
        /\ r.created # None /\ r.result = r.created
        /\ txs[r.txn.id].status = "succeeded" /\ txs[r.txn.id].order = r.created
        /\ \A c \in CartIds : carts[c].status = "active" /\ carts[c].items = CartItems

\* C23: once a cart is marked purchased it stays purchased with an empty
\* item list in every later state, and a later attempt to mark it purchased,
\* from confirm-order or from the webhook, changes nothing and does not fail
\* the invocation that makes it.
C23_PurchasedCartInert ==
    /\ [](\A c \in CartIds : carts[c].status = "purchased" => carts[c].items = 0)
    /\ [][\A c \in CartIds :
            carts[c].status = "purchased" => carts'[c] = carts[c]]_vars
    /\ [][\A p \in Procs :
            LET r == procs[p]
                r2 == procs'[p]
            IN
            (r.pc = "updateCart" /\ r2 # r /\ carts[r.txn.cart].status = "purchased") =>
                /\ carts' = carts
                /\ r2.err = ""
                /\ r.kind = "confirm" => r2.pc = "updateTx"
                /\ r.kind = "webhook" => (r2.pc = "done" /\ r2.http = 200)]_vars

\* a webhook delivery that read the cart after it had been marked purchased
\* (the Order it created has no items) has made its own cart update and
\* answered success
C23_Witness ==
    \E p \in Procs :
        LET r == procs[p] IN
        /\ r.kind = "webhook" /\ r.pc = "done" /\ r.http = 200 /\ ~r.faulted
        /\ r.created # None /\ orders[r.created].items = 0
        /\ \A c \in CartIds : carts[c].status = "purchased" /\ carts[c].items = 0

\* the input of an initiatePayment call lacks something required: the
\* currency, a cart with items, the customer email, the billing address, an
\* item that maps to an order row, or a positive price and quantity of the
\* row (an item's quantity 0 counts as one unit and gives a positive row)
InvalidInput(currency, cart, email, billing, rows) ==
    \/ ~currency
    \/ cart = None
    \/ (cart # None /\ carts[cart].items = 0)
    \/ ~email
    \/ ~billing
    \/ ~CartItemOf(rows).product
    \/ CartItemOf(rows).priceInNOK <= 0
    \/ CartItemOf(rows).quantity < 0

\* C24: an initiatePayment call with a missing or invalid required input
\* fails with an error to the caller, makes no create-order call to the
\* provider and creates no transaction, whatever the provider would answer.
C24_InvalidInputCommitsNothing ==
    [][(ip.pc = "idle" /\ ip'.pc = "done") =>
        \A currency \in BOOLEAN, cart \in {None} \cup CartIds, email \in BOOLEAN,
           billing \in BOOLEAN, rows \in RowKinds, outcome \in Outcomes,
           rc \in ResultCodes :
            (/\ InvalidInput(currency, cart, email, billing, rows)
             /\ IpCall(currency, cart, email, billing, rows, outcome, rc)) =>
                /\ ip'.err # "" /\ ~ip'.called /\ ip'.tx = None
                /\ provider' = provider /\ txs' = txs]_vars

\* a call whose only item has a negative quantity has failed at the order
\* row check, before the provider call
C24_Witness ==
    /\ ip.pc = "done" /\ ip.err = "Invalid order row"
    /\ ~ip.called /\ ip.tx = None

\* the provider's answer to the create-order call is a failure: not 2xx, or
\* 2xx with a numeric result code other than 0, 200 and 201
Rejected(outcome, rc) ==
    \/ outcome = "http"
    \/ outcome \in {"ok", "storefault"} /\ rc.numeric /\ rc.value \notin {0, 200, 201}

\* C25: an initiatePayment call whose create-order response is not 2xx, or
\* is 2xx with a numeric result code other than 0, 200 or 201, fails with an
\* error and creates no transaction, the one call to the provider not being
\* repeated; a transaction is created, with status pending, only by a call
\* whose response was accepted.
C25_ProviderFailureCreatesNothing ==
    [][(ip.pc = "idle" /\ ip'.pc = "done") =>
        /\ \A i \in DOMAIN txs' : i \notin DOMAIN txs =>
              (txs'[i].status = "pending" /\ ip'.err = "" /\ ip'.tx = i /\ ip'.called)
        /\ \A currency \in BOOLEAN, cart \in {None} \cup CartIds, email \in BOOLEAN,
              billing \in BOOLEAN, rows \in RowKinds, outcome \in Outcomes,
              rc \in ResultCodes :
               (/\ ~InvalidInput(currency, cart, email, billing, rows)
                /\ IpCall(currency, cart, email, billing, rows, outcome, rc)) =>
                   /\ ip'.called
                   /\ Rejected(outcome, rc) =>
                         /\ ip'.err = "Failed to create Svea order" /\ ip'.tx = None
                         /\ txs' = txs
                   /\ txs' # txs => (outcome = "ok" /\ ~Rejected(outcome, rc))]_vars

\* a call has reached the provider and failed on its answer: no transaction
\* came of it
C25_Witness ==
    /\ ip.pc = "done" /\ ip.err = "Failed to create Svea order"
    /\ ip.called /\ ip.tx = None
    /\ txs = <<>>

\* the transitions the confirmation flow is said to make
AllowedTransitions ==
    {<<"idle", "confirming">>, <<"confirming", "success">>,
     <<"confirming", "failed">>, <<"failed", "idle">>}

\* C26: the confirmation component's state changes only by idle ->
\* confirming, confirming -> success, confirming -> failed and failed ->
\* idle (the retry action); failed is entered only from confirming; after a
\* retry the confirmation sequence is started again.
C26_StateMachine ==
    [][client'.confirmationState # client.confirmationState =>
         <<client.confirmationState, client'.confirmationState>>
            \in AllowedTransitions]_vars

\* no identifier is to be had from the URL or from the stored record (a
\* parameter without a value counts as not there)
NoIdentifierAnywhere ==
    /\ \A k \in {"orderId", "transactionId", "clientOrderNumber"} :
          client.url[k] \in {"absent", "empty"}
    /\ client.session.kind = "record" =>
          \A k \in {"orderId", "transactionId", "clientOrderNumber"} :
              client.session.ids[k] = "absent"

\* C27: the confirmation flow fails with the missing-identifiers error only
\* when orderId, transactionId and clientOrderNumber are absent from the URL
\* and from the stored record and the storage check has completed; before
\* the storage check completes it neither fails nor sends a request.
C27_MissingIdentifiers ==
    /\ client.confirmationError = "Missing order identifiers."
          => (client.hasCheckedStorage /\ NoIdentifierAnywhere)
    /\ ~client.hasCheckedStorage
          => (client.confirmationState = "idle" /\ client.sent = 0)

\* C28: when the confirm-order request returns a result with an order id,
\* the stored session record has been removed and the cart-clearing callback
\* (if one is given) has been called by the time the state becomes success;
\* a cart-clearing callback that throws or rejects does not fail the flow:
\* onSuccess is still called, and the state becomes success (unless onSuccess
\* itself throws).
C28_SuccessClearsAndSwallows ==
    /\ [](client.confirmationState = "success" =>
             (client.removed /\ client.session.kind # "record"
                /\ client.clearCart # "notyet"))
    /\ [][(client.pc = "clearCart" /\ client' # client) =>
             /\ client'.onSuccess # "notyet"
             /\ client'.onSuccess # "throws" =>
                   (client'.confirmationState = "success" /\ ~client'.onError)]_vars

\* the cart-clearing callback threw, and the flow is in state success with
\* onSuccess called and the stored record gone
C28_Witness ==
    /\ client.confirmationState = "success"
    /\ client.clearCart \in {"throws", "rejects"}
    /\ client.onSuccess = "ok" /\ ~client.onError
    /\ client.session.kind = "none"

\* C29: the confirm-order handler answers every failure with an explicit
\* status and message: an unparseable body gives 400 "Invalid request body"
\* with the store untouched, every error raised by confirmOrder gives 500
\* with the error's message, and 200 is answered only with a result and no
\* error; a session authentication that throws does not fail the request.
ConfirmAnswered(p) == procs[p].kind = "confirm" /\ procs[p].pc = "done"
C29_HandlerPropagates ==
    /\ [](\A p \in Procs : ConfirmAnswered(p) =>
             /\ procs[p].http \in {200, 400, 500}
             /\ procs[p].http = 400 <=> procs[p].err = "Invalid request body"
             /\ procs[p].http = 400 => procs[p].body = "unparseable"
             /\ procs[p].http = 200 <=> procs[p].err = ""
             /\ procs[p].http = 200 => procs[p].result # None
             /\ procs[p].http = 500 => procs[p].result = None)
    /\ [][\A p \in Procs :
             (procs[p].pc = "idle" /\ procs'[p].kind = "confirm") =>
                /\ procs'[p].body = "unparseable" =>
                      /\ StoreUnchanged
                      /\ procs'[p].pc = "done"
                      /\ procs'[p].http = 400 \/ procs'[p].faulted
                /\ \A oid \in PoIdIn, tid \in TxIdIn, con \in ConIn :
                      procs'[p] = CoEnter(oid, tid, con, TRUE, FALSE, "throws") =>
                         /\ ~procs'[p].faulted
                         /\ procs'[p].pc = "done" =>
                               procs'[p].err = "Transaction not found."]_vars

\* confirmOrder found the transaction and then raised an error of its own,
\* which the handler answered with 500 and the error's message
C29_Witness ==
    \E p \in Procs :
       /\ ConfirmAnswered(p) /\ procs[p].http = 500
       /\ procs[p].txn.id # None /\ ~procs[p].faulted
       /\ procs[p].err \notin {"", "Invalid request body"}

\* C30: missing credentials (an empty merchant id or secret key) are a fatal
\* error of setup: an adapter or handler created with them never gets to
\* process a request, so no invocation of an entry point is ever under way or
\* answered while the credentials are missing.
C30_FatalAtSetup ==
    MissingCredentials => (ip.pc = "idle" /\ \A p \in Procs : procs[p].pc = "idle")

\* C31: a webhook with status Final that matched a transaction with a cart
\* and ran to its answer without a store error leaves the transaction
\* succeeded, linked to an Order that lists it, and the cart purchased,
\* whether the Order was created by this delivery or existed before.
FinalWebhookCompleted(p) ==
    /\ procs[p].kind = "webhook" /\ procs[p].pc = "done"
    /\ procs[p].inStatus = "Final" /\ ~procs[p].faulted
    /\ procs[p].txn.id # None
    /\ txs[procs[p].txn.id].cart # None
Materialized(t) ==
    /\ txs[t].status = "succeeded"
    /\ txs[t].order \in 1..Len(orders)
    /\ \E k \in 1..Len(orders[txs[t].order].transactions) :
          orders[txs[t].order].transactions[k] = t
    /\ carts[txs[t].cart].status = "purchased"
C31_FinalWebhookMaterializes ==
    \A p \in Procs : FinalWebhookCompleted(p) => Materialized(procs[p].txn.id)

\* C32: a finalization whose transaction document carries no order link
\* while some Order already lists the transaction finds that Order by its
\* lookup and creates none: the webhook answers without creating, and
\* confirm-order goes on to that Order, updates it in place (the transaction
\* stays listed) and links the transaction to it.
Stepped(p) == procs'[p] # procs[p]
C32_ExistingOrderDiscovery ==
    /\ [][\A p \in Procs :
             (procs[p].pc = "lookup" /\ Stepped(p) /\ Listing(procs[p].txn.id) # {}
                /\ ~(procs[p].kind = "webhook" /\ procs'[p].faulted)
                /\ procs'[p].err # "call failed") =>
                /\ orders' = orders
                /\ procs[p].kind = "webhook" => procs'[p].pc = "done"
                /\ procs[p].kind = "confirm" =>
                      /\ procs'[p].pc = "findOrder"
                      /\ procs'[p].existing \in Listing(procs[p].txn.id)]_vars
    /\ [][\A p \in Procs :
             (procs[p].pc = "updateOrder" /\ Stepped(p)
                /\ procs'[p].err # "call failed") =>
                /\ Len(orders') = Len(orders)
                /\ procs'[p].ord = procs[p].existing
                /\ procs[p].existing \in
                      {o \in 1..Len(orders') :
                          \E k \in 1..Len(orders'[o].transactions) :
                             orders'[o].transactions[k] = procs[p].txn.id}]_vars
    /\ [][\A p \in Procs :
             (procs[p].kind = "confirm" /\ procs[p].pc = "updateTx" /\ Stepped(p)
                /\ procs[p].existing # None /\ procs'[p].err # "call failed") =>
                /\ txs'[procs[p].txn.id].order = procs[p].existing
                /\ procs'[p].result = procs[p].existing
                /\ procs'[p].created = None]_vars

\* confirm-order read a transaction without an order link, found the Order
\* that an earlier attempt had created, and linked the transaction to it
C32_Witness ==
    \E p \in Procs :
       /\ procs[p].kind = "confirm" /\ procs[p].pc = "done"
       /\ procs[p].txn.order = None /\ procs[p].created = None
       /\ procs[p].result # None
       /\ txs[procs[p].txn.id].order = procs[p].result
       /\ procs[p].result \in Listing(procs[p].txn.id)

\* C33: a confirm-order call without a provider order id whose transaction
\* stores one goes on with the stored id: that id is the one fetched from the
\* provider, and the call succeeds only with that provider order Final; when
\* neither the call nor the transaction has one, the call fails with
\* 'Svea order ID is required.' without a provider call or a store write.
ConfirmWithoutOrderId(p) ==
    /\ procs[p].kind = "confirm" /\ procs[p].inOrderId = None
    /\ procs[p].txn.id # None
StoredOrderId(p) == txs[procs[p].txn.id].orderId
C33_IdentifierBackfill ==
    /\ [](\A p \in Procs : ConfirmWithoutOrderId(p) =>
             IF StoredOrderId(p) # None
             THEN /\ procs[p].sveaOrderId = StoredOrderId(p)
                  /\ procs[p].err # "Svea order ID is required."
                  /\ (procs[p].fetched /\ procs[p].err = "") =>
                        /\ StoredOrderId(p) - PoBase \in 1..Len(provider)
                        /\ provider[StoredOrderId(p) - PoBase].status = "Final"
             ELSE /\ procs[p].pc = "done" /\ procs[p].http = 500
                  /\ procs[p].err = "Svea order ID is required."
                  /\ ~procs[p].fetched)
    /\ [][\A p \in Procs :
             (Stepped(p) /\ procs'[p].err = "Svea order ID is required.") =>
                /\ StoreUnchanged /\ provider' = provider
                /\ procs'[p].inOrderId = None
                /\ txs[procs'[p].txn.id].orderId = None]_vars

\* a call without an order id was confirmed with the stored one, while
\* another transaction stores none
C33_Witness ==
    /\ \E p \in Procs :
          /\ ConfirmWithoutOrderId(p) /\ procs[p].pc = "done"
          /\ procs[p].fetched /\ procs[p].result # None
          /\ StoredOrderId(p) # None
    /\ \E t \in 1..Len(txs) : txs[t].orderId = None

\* C34: the validation callback tells the two payload shapes apart.  A
\* payload with an EventName never reaches the validation lookup or the
\* custom predicate, is answered Valid: true, and none of its steps writes
\* to the store.  A payload without it is a validation request: unless a call
\* throws, it is answered from the transaction lookup (missing OrderId, no
\* transaction, or the transaction found), and with a transaction found and
\* a predicate configured the predicate has been invoked before the answer.
IsValidation(p) == procs[p].kind = "validation" /\ procs[p].method \in {"POST", "PUT"}
TxWithOrderId(oid) == {t \in 1..Len(txs) : txs[t].orderId = oid}
C34_PayloadShapes ==
    /\ [](\A p \in Procs : (IsValidation(p) /\ procs[p].event) =>
             /\ ~procs[p].invoked
             /\ procs[p].pc \in {"vcEventFind", "done"}
             /\ procs[p].txn.id = None
             /\ procs[p].pc = "done" =>
                   /\ procs[p].valid = "true" /\ procs[p].http = 200
                   /\ procs[p].extra \in {"", "Error"})
    /\ [][\A p \in Procs :
             (Stepped(p) /\ procs'[p].kind = "validation" /\ procs'[p].event)
                => StoreUnchanged]_vars
    /\ [](\A p \in Procs :
             (IsValidation(p) /\ ~procs[p].event /\ procs[p].pc = "done"
                /\ ~procs[p].faulted) =>
                IF procs[p].inOrderId = None
                THEN procs[p].extra = "Warning: Missing OrderId" /\ ~procs[p].invoked
                ELSE IF TxWithOrderId(procs[p].inOrderId) = {}
                THEN /\ procs[p].extra = "Warning: Transaction not found"
                     /\ ~procs[p].invoked
                ELSE /\ procs[p].txn.id \in TxWithOrderId(procs[p].inOrderId)
                     /\ procs[p].invoked <=> procs[p].pred # "none"
                     /\ procs[p].valid = "true" <=> procs[p].pred \in {"none", "true"})

\* an event payload naming the order id of a stored transaction was answered
\* Valid: true although the configured predicate would have rejected it
C34_Witness ==
    \E p \in Procs :
       /\ IsValidation(p) /\ procs[p].event /\ procs[p].pc = "done"
       /\ ~procs[p].faulted /\ procs[p].pred = "false"
       /\ TxWithOrderId(procs[p].inOrderId) # {}

\* C35: the client order number a transaction was created with is never
\* changed or removed by a webhook or a confirm-order call, so the set of
\* transactions a client order number resolves to stays what it was.
TxWithCon(list, con) == {t \in 1..Len(list) : list[t].con = con}
C35_ClientOrderNumberKept ==
    /\ [][\A t \in 1..Len(txs) : txs'[t].con = txs[t].con]_vars
    /\ [][\A con \in ConIn \ {None} :
             TxWithCon(txs, con) # {} => TxWithCon(txs', con) = TxWithCon(txs, con)]_vars

\* after reconciliation has written the provider sub-object of a transaction
\* and made it succeeded, a confirm-order call that names only the client
\* order number has resolved that transaction
C35_Witness ==
    \E p \in Procs :
       /\ procs[p].kind = "confirm" /\ procs[p].pc = "done"
       /\ procs[p].inCon # None /\ procs[p].inTxId = None /\ procs[p].inOrderId = None
       /\ procs[p].txn.id # None
       /\ txs[procs[p].txn.id].con = procs[p].inCon
       /\ txs[procs[p].txn.id].status = "succeeded"
       /\ procs[p].result # None /\ ~procs[p].fetched

\* C36: confirm-order makes a transaction succeeded only with the provider
\* order the transaction was created with: whatever identifiers the call
\* supplies, the provider order it fetched is the one stored on the
\* transaction, and the stored provider order id is the same after the
\* confirming write as before it.
C36_ConfirmKeepsProviderOrder ==
    [][\A p \in Procs :
         (procs[p].kind = "confirm" /\ procs[p].pc = "updateTx" /\ txs' # txs) =>
            /\ procs[p].sveaOrderId = txs[procs[p].txn.id].orderId
            /\ txs'[procs[p].txn.id].orderId = txs[procs[p].txn.id].orderId]_vars

\* C37: in every state, also between the steps of a running handler and
\* after a handler that failed midway, a succeeded transaction is listed in
\* the linked transactions of some Order.
C37_SucceededIsListed ==
    \A t \in 1..Len(txs) : txs[t].status = "succeeded" => Listing(t) # {}

\* C38 as stated: the order link of a transaction, once set, is never cleared
\* and never changed to another Order by a later or overlapping webhook or
\* confirm-order call.
C38_OrderLinkStable ==
    [][\A t \in 1..Len(txs) :
         txs[t].order # None => txs'[t].order = txs[t].order]_vars

\* C38 as amended: the order link, once set, is never cleared, and a call that
\* read the transaction with its link set never changes it; the link is
\* replaced only by a call that read the transaction before the link was set
\* (an overlapping call), and then by an Order that lists the transaction.
C38_LinkKeptByLaterCalls ==
    [][\A t \in 1..Len(txs) :
         txs[t].order # None =>
            /\ txs'[t].order # None
            /\ txs'[t].order # txs[t].order =>
                  /\ txs'[t].order \in Listing(t)
                  /\ \E p \in Procs :
                        /\ Stepped(p) /\ procs[p].txn.id = t
                        /\ procs[p].txn.order = None]_vars

\* two overlapping webhook deliveries each read the unlinked transaction,
\* created an Order and wrote the link; the link holds the Order of the one
\* that wrote last
C38_Witness ==
    \E p, q \in Procs :
       /\ p # q /\ procs[p].txn.id # None /\ procs[p].txn.id = procs[q].txn.id
       /\ procs[p].kind = "webhook" /\ procs[q].kind = "webhook"
       /\ procs[p].pc = "updateCart" /\ procs[q].pc = "updateCart"
       /\ procs[p].txn.order = None /\ procs[q].txn.order = None
       /\ procs[p].created # procs[q].created
       /\ txs[procs[p].txn.id].order = procs[p].created

\* C39: no Order is created with an empty list of items: every Order the
\* webhook or confirm-order creates holds at least one item, also when the
\* cart of its transaction has been marked purchased and emptied before.
C39_CreatedOrderHasItems ==
    [][Len(orders') > Len(orders) => orders'[Len(orders')].items > 0]_vars

\* C40: the confirmation page sends at most one confirm-order request per
\* attempt (the mount and each retry start one attempt), and once the state
\* is success no request is sent any more.  The state is or has been success
\* since the last request when it is success now or onSuccess has returned.
HasSucceeded ==
    client.confirmationState = "success" \/ client.onSuccess \in {"absent", "ok"}
C40_OneRequestPerAttempt ==
    /\ [](client.sent <= client.retries + 1)
    /\ [][HasSucceeded => client'.sent = client.sent]_vars

====
